---- MODULE Spec2Model ----
(***************************************************************************)
(* State-machine model of the rear-differential service: the Record Store  *)
(* writes (db_service.py), the reject orchestration (routers/training.py), *)
(* the soft-delete workflow (routers/media.py), the filesystem gateway     *)
(* (file_service.py) and the download-daemon gateway                       *)
(* (transmission_service.py).                                              *)
(*                                                                         *)
(* Strings that the code takes apart are modelled by their parts: a path   *)
(* or a link is the sequence of its '/'-separated segments, the empty      *)
(* sequence standing for None / '' and a leading "" segment for a leading  *)
(* '/' (the result of str.split('/')).  Timestamps are values of a logical    *)
(* clock, 0 standing for NULL.  An Optional[bool] is {} (None) or {b}.     *)
(***************************************************************************)
EXTENDS Integers, Sequences, FiniteSets, TLC

\* ------------------------------------------------------------------ bounds
\* Total number of HTTP calls issued in one behaviour.
MaxCalls == 2

\* Request slots (concurrently running handlers / workers).
Slots == {1, 2}

\* ------------------------------------------------------------- data universe
TrainIds == {"tt1"}                \* imdb_ids that have a training row
ReqIds == TrainIds \cup {"tt0"}    \* tt0: well-formed id without a row
MediaHashes == {"h1"}              \* hashes that have a media row
ReqHashes == MediaHashes \cup {"h0"}

NoLabel == "None"
WouldWatch == "would_watch"
WouldNotWatch == "would_not_watch"
Labels == {WouldWatch, WouldNotWatch}

NullTs == 0
NoValue == "None"                  \* an Optional[str] that is None
NullText == "NULL"                 \* a text column that is NULL
Downloaded == "downloaded"
Complete == "complete"
Unfiltered == "unfiltered"
DownloadFailed == "download failed"
NoPath == <<>>
TargetDir == <<"movie-x">>
LibMovies == <<"", "lib", "movies">>
LibTv == <<"", "lib", "tv">>
NonexistentParent == <<"", "nonexistent">>
LinkPlain == <<"https:", "", "yts.lt", "download", "h1">>
LinkSlash == <<"https:", "", "yts.lt", "download", "h1", "">>

\* ------------------------------------------------------------ configuration
cache_path == <<"", "cache">>
library_path_movies == LibMovies
library_path_tv == LibTv

VARIABLES
  training,              \* atp.training: imdb_id -> row
  media,                 \* atp.media: hash -> row
  fs,                    \* set of paths that exist on the filesystem
  torrents,              \* hashes held by the Transmission daemon
  file_deletion_enabled, \* FileService.file_deletion_enabled
  now,                   \* logical clock of the database (NOW())
  calls,                 \* number of calls issued so far
  req,                   \* per slot: the handler's locals, position and response
  catalog,               \* per listed relation: the rows its listings read
  connections            \* database connections that are open

vars == <<training, media, fs, torrents, file_deletion_enabled, now, calls, req,
          catalog, connections>>

\* ------------------------------------------------------------------ strings
Last(s) == s[Len(s)]
Front(s) == SubSeq(s, 1, Len(s) - 1)

\* str.rstrip('/') on the split representation: trailing empty segments go.
RECURSIVE RStripSlash(_)
RStripSlash(s) ==
  IF s = <<>> THEN <<>>
  ELSE IF Last(s) = "" THEN RStripSlash(Front(s))
  ELSE s

\* os.path.join(a, b): an absolute b replaces a; no separator is added after
\* an empty a or an a that ends with '/'.
Join(a, b) ==
  IF b # <<>> /\ Head(b) = "" THEN b
  ELSE IF a = <<>> THEN b
  ELSE IF Last(a) = "" THEN Front(a) \o b
  ELSE a \o b

\* Segments that begin with the text "movies".
MoviesSegments == {"movies"}

\* '/movies' in db_parent_path
ContainsSlashMovies(p) == \E i \in 2..Len(p) : p[i] \in MoviesSegments

\* p is q or an ancestor directory of q.
IsPrefix(p, q) == Len(p) <= Len(q) /\ SubSeq(q, 1, Len(p)) = p

SeqToSet(s) == {s[i] : i \in 1..Len(s)}

\* ------------------------------------------------------------------ messages
MsgDisabled == "File deletion is disabled"
MsgNoFilesFound == "No files found in any location for: movie-x"
MsgNoPathInfo == "No path information available in media table"
MsgNoMediaPath == "No media found for IMDB ID"
MsgDeleted == "Deleted path(s)"

ErrTrainingNotFound == "Training data not found"
ErrMediaNotFound == "Media not found"
ErrAlreadyDeleted == "Already deleted"
ErrNoFields == "No fields to update"
ErrDatabase == "Database error"
ErrTransmission == "Transmission error"
ErrConnection == "Connection error"
ErrMediaDeleted == "Media deleted"
ErrFetchMedia == "Failed to fetch media data"
ErrHashMismatch == "Hash in URL path must match hash in request body"

MsgSoftDeleted == "Media soft deleted successfully"
NoteAlsoRemoved == " (also removed from Transmission)"

\* ------------------------------------------------------- filesystem gateway
\* FileService.delete_media: the candidate paths, in the order tried.
PathsToTry(db_parent_path, db_target_path, media_type) ==
  LET library_base == IF media_type = "movie" THEN library_path_movies
                      ELSE library_path_tv
      p1 == IF cache_path # <<>>
            THEN <<Join(Join(cache_path, <<"incomplete">>), db_target_path)>>
            ELSE <<>>
      p2 == IF cache_path # <<>>
            THEN p1 \o <<Join(Join(cache_path, <<"complete">>), db_target_path)>>
            ELSE p1
      p3 == IF library_base # <<>>
            THEN p2 \o <<Join(library_base, db_target_path)>>
            ELSE p2
      full_db_path == Join(db_parent_path, db_target_path)
  IN IF full_db_path \notin SeqToSet(p3) THEN p3 \o <<full_db_path>> ELSE p3

\* FileService.delete_directory: media type detected from the parent path.
DetectMediaType(db_parent_path) ==
  IF ContainsSlashMovies(db_parent_path) THEN "movie" ELSE "tv"

\* Variant: deleted is reported whenever the loop ran to its end.
DeleteMediaResponse_AlwaysDeleted(deleted_paths) ==
  [success |-> TRUE, deleted |-> TRUE, message |-> MsgDeleted, warning |-> ""]

\* FileService.delete_media: the response built after all paths were tried.
DeleteMediaResponse(deleted_paths) ==
  IF deleted_paths # <<>>
  THEN [success |-> TRUE, deleted |-> TRUE, message |-> MsgDeleted, warning |-> ""]
  ELSE [success |-> TRUE, deleted |-> FALSE, message |-> MsgNoFilesFound, warning |-> ""]

\* Variant: the configuration flag is not consulted.
DeletionSkipped_Never == FALSE

\* FileService.delete_media line 71: if not self.file_deletion_enabled
DeletionSkipped == ~file_deletion_enabled

\* FileService.delete_media: the short circuit when deletion is disabled.
DeleteMediaDisabled ==
  [success |-> TRUE, deleted |-> FALSE, message |-> MsgDisabled, warning |-> ""]

\* ------------------------------------------------------------ reject router
\* Variant: the trailing slash is not stripped before the split.
TorrentHashOf_NoStrip(original_link) ==
  IF original_link = <<>> THEN "" ELSE Last(original_link)

\* torrent_hash = original_link.rstrip('/').split('/')[-1]; '' for ''.
TorrentHashOf(original_link) ==
  LET stripped == RStripSlash(original_link)
  IN IF stripped = <<>> THEN "" ELSE Last(stripped)

\* Variant: the router forgets the gateway's message when nothing was deleted.
RejectFileOutcome_DropsMessage(deletion_result) ==
  IF deletion_result.deleted
  THEN [file_deleted |-> TRUE, file_deletion_warning |-> ""]
  ELSE [file_deleted |-> FALSE, file_deletion_warning |-> deletion_result.warning]

\* lines 131-142: how the router reports the gateway's deletion result.
RejectFileOutcome(deletion_result) ==
  IF deletion_result.deleted
  THEN [file_deleted |-> TRUE, file_deletion_warning |-> ""]
  ELSE IF deletion_result.warning # ""
  THEN [file_deleted |-> FALSE, file_deletion_warning |-> deletion_result.warning]
  ELSE [file_deleted |-> FALSE, file_deletion_warning |-> deletion_result.message]

\* Variant: the router goes on whatever the write returned.
RejectProceeds_Always(result) == TRUE

\* lines 113-116: the router goes on only after a successful write.
RejectProceeds(result) == result.success

\* lines 114-116: NotFound is raised as 404, other failures are returned.
RejectFailureStatus(error) == IF error = ErrTrainingNotFound THEN 404 ELSE 200

\* Variant: the router reports the gateway's success flag.
RejectTorrentOutcome_Success(torrent_result) == torrent_result.success

\* line 158: result["torrent_removed"] = torrent_result.get("found", False)
RejectTorrentOutcome(torrent_result) == torrent_result.found

\* ------------------------------------------------------------- Record Store
\* update_training_fields, lines 436-464: the columns the patch writes.
TrainingUpdateFields(label, human_labeled, anomalous, reviewed) ==
  (IF label # NoLabel THEN {"label", "human_labeled", "reviewed"} ELSE {})
  \cup (IF human_labeled # {} /\ label = NoLabel THEN {"human_labeled"} ELSE {})
  \cup (IF anomalous # {} THEN {"anomalous"} ELSE {})
  \cup (IF reviewed # {} /\ label = NoLabel THEN {"reviewed"} ELSE {})

TheValue(opt) == CHOOSE b \in opt : TRUE

\* Variant: explicitly passed flags are written even when label is passed.
TrainingRowAfterPatch_ExplicitFlagsWin(row, label, human_labeled, anomalous, reviewed, ts) ==
  [label |-> IF label # NoLabel THEN label ELSE row.label,
   human_labeled |-> IF human_labeled # {} THEN TheValue(human_labeled)
                     ELSE IF label # NoLabel THEN TRUE
                     ELSE row.human_labeled,
   anomalous |-> IF anomalous # {} THEN TheValue(anomalous) ELSE row.anomalous,
   reviewed |-> IF reviewed # {} THEN TheValue(reviewed)
                ELSE IF label # NoLabel THEN TRUE
                ELSE row.reviewed,
   updated_at |-> ts,
   label_at |-> IF label # NoLabel THEN ts ELSE row.label_at]

\* update_training_fields, lines 436-486: the row after the UPDATE.
TrainingRowAfterPatch(row, label, human_labeled, anomalous, reviewed, ts) ==
  [label |-> IF label # NoLabel THEN label ELSE row.label,
   human_labeled |-> IF label # NoLabel THEN TRUE
                     ELSE IF human_labeled # {} THEN TheValue(human_labeled)
                     ELSE row.human_labeled,
   anomalous |-> IF anomalous # {} THEN TheValue(anomalous) ELSE row.anomalous,
   reviewed |-> IF label # NoLabel THEN TRUE
                ELSE IF reviewed # {} THEN TheValue(reviewed)
                ELSE row.reviewed,
   updated_at |-> ts,
   label_at |-> IF label # NoLabel THEN ts ELSE row.label_at]

\* update_label, lines 329-336: the row after the UPDATE.
TrainingRowAfterLabel(row, label, ts) ==
  [row EXCEPT !.label = label, !.human_labeled = TRUE, !.reviewed = TRUE,
              !.updated_at = ts, !.label_at = ts]

\* update_training_fields, lines 439-464: the updated_fields dict returned.
TrainingUpdatedFields(label, human_labeled, anomalous, reviewed) ==
  [f \in TrainingUpdateFields(label, human_labeled, anomalous, reviewed) |->
     IF f = "label" THEN label
     ELSE IF f = "human_labeled"
     THEN (IF label # NoLabel THEN TRUE ELSE TheValue(human_labeled))
     ELSE IF f = "anomalous" THEN TheValue(anomalous)
     ELSE (IF label # NoLabel THEN TRUE ELSE TheValue(reviewed))]

\* The fields a PATCH /training body carries.
TrainingProvided(patch) ==
  (IF patch.label # NoLabel THEN {"label"} ELSE {})
  \cup {f \in {"human_labeled", "anomalous", "reviewed"} : patch[f] # {}}

\* update_media_pipeline, lines 634-651: the columns the patch writes.
MediaUpdateFields(pipeline_status, error_status, rejection_status, clear_error_condition) ==
  (IF pipeline_status # NoValue THEN {"pipeline_status"} ELSE {})
  \cup (IF error_status # {} THEN {"error_status"} ELSE {})
  \cup (IF rejection_status # NoValue THEN {"rejection_status"} ELSE {})
  \cup (IF clear_error_condition THEN {"error_condition"} ELSE {})

\* Variant: the UPDATE also brings a soft-deleted row back.
MediaRowAfterPipeline_Undeletes(row, pipeline_status, error_status, rejection_status, clear_error_condition, ts) ==
  [row EXCEPT
     !.pipeline_status = IF pipeline_status # NoValue THEN pipeline_status ELSE @,
     !.error_status = IF error_status # {} THEN TheValue(error_status) ELSE @,
     !.rejection_status = IF rejection_status # NoValue THEN rejection_status ELSE @,
     !.error_condition = IF clear_error_condition THEN NullText ELSE @,
     !.deleted_at = NullTs,
     !.updated_at = ts]

\* update_media_pipeline, lines 634-669: the row after the UPDATE.
MediaRowAfterPipeline(row, pipeline_status, error_status, rejection_status, clear_error_condition, ts) ==
  [row EXCEPT
     !.pipeline_status = IF pipeline_status # NoValue THEN pipeline_status ELSE @,
     !.error_status = IF error_status # {} THEN TheValue(error_status) ELSE @,
     !.rejection_status = IF rejection_status # NoValue THEN rejection_status ELSE @,
     !.error_condition = IF clear_error_condition THEN NullText ELSE @,
     !.updated_at = ts]

\* The fields a PATCH /media/{hash}/pipeline body carries.
MediaProvided(body) ==
  (IF body.pipeline_status # NoValue THEN {"pipeline_status"} ELSE {})
  \cup (IF body.error_status # {} THEN {"error_status"} ELSE {})
  \cup (IF body.rejection_status # NoValue THEN {"rejection_status"} ELSE {})
  \cup (IF body.clear_error_condition THEN {"clear_error_condition"} ELSE {})

\* soft_delete_media, lines 833-836: the row after the UPDATE.
MediaRowAfterSoftDelete(row, ts) ==
  [row EXCEPT !.deleted_at = ts, !.updated_at = ts]

\* get_media_path_by_imdb_id: the media row cross-referenced by imdb_id,
\* soft-deleted rows filtered out as in every read query.
MediaPathByImdbId(imdb_id) ==
  LET hs == {h \in MediaHashes :
               media[h].imdb_id = imdb_id /\ media[h].deleted_at = NullTs}
  IN IF hs = {}
     THEN [success |-> FALSE, message |-> MsgNoMediaPath,
           parent_path |-> NoPath, target_path |-> NoPath, original_link |-> NoPath]
     ELSE LET h == CHOOSE x \in hs : TRUE
          IN [success |-> TRUE, message |-> "",
              parent_path |-> media[h].parent_path,
              target_path |-> media[h].target_path,
              original_link |-> media[h].original_link]

\* --------------------------------------------------------------- requests
\* A mapping from column names to values that maps nothing.
NoFields == [f \in {} |-> TRUE]

IdleReq ==
  [kind |-> "none", pc |-> "idle", id |-> "", call |-> 0, prior |-> {},
   patch_label |-> NoLabel,  \* the label the call wrote, if it wrote one
   \* locals of the handler
   original_link |-> NoPath,
   paths_to_try |-> <<>>, idx |-> 0, deleted_paths |-> <<>>,
   torrent_hash |-> "", delete_data |-> FALSE,
   t_success |-> FALSE, t_found |-> FALSE, t_error |-> "", t_name |-> <<>>,
   filter_status |-> NoValue,
   \* history of the call
   lookup_called |-> FALSE, lookup_ok |-> FALSE, fs_called |-> FALSE, existed |-> 0, failures |-> 0,
   t_called |-> FALSE, t_connected |-> FALSE, t_seen |-> FALSE, t_rpcs |-> 0,
   written_at |-> NullTs, saw_deleted |-> FALSE, dup_reported |-> FALSE,
   tried |-> <<>>,  \* the paths handed to _delete_path, in order
   \* response
   http |-> 0, success |-> FALSE, error |-> "", message |-> <<>>,
   updated_fields |-> NoFields, data |-> {}, total |-> 0, already_exists |-> FALSE,
   file_deleted |-> FALSE, file_deletion_warning |-> "",
   torrent_removed |-> FALSE, also_removed |-> FALSE,
   \* a listing: its parameters, the ORDER BY it ran and its page
   routed |-> FALSE, sort_by |-> "", sort_order |-> "", limit |-> 0, offset |-> 0,
   order_by |-> <<>>, page |-> <<>>, next |-> <<>>, previous |-> <<>>,
   has_more |-> FALSE, raised |-> FALSE,
   \* a Record Store operation run step by step: its local conn, the
   \* connection it opened, its uncommitted UPDATE and whether it committed
   op |-> "", conn |-> FALSE, opened |-> FALSE, setup_failed |-> FALSE,
   pending |-> FALSE, committed |-> FALSE]

DoneCalls == {req[t].call : t \in {u \in Slots : req[u].pc = "done"}}

\* A slot takes a new call when it is not serving one; slots are
\* interchangeable, so a call goes to the first slot never used, and the
\* response of a finished call is replaced only when every slot was used.
Free(s) ==
  /\ req[s].pc \in {"idle", "done"}
  /\ calls < MaxCalls
  /\ \A t \in Slots : t < s => req[t].pc # "idle"
  /\ req[s].pc = "done" => \A t \in Slots : req[t].pc # "idle"

NewReq(kind, id) ==
  [IdleReq EXCEPT !.kind = kind, !.id = id, !.call = calls + 1,
                  !.prior = DoneCalls]

MediaRow(parent_path, original_link) ==
  [imdb_id |-> "tt1", parent_path |-> parent_path, target_path |-> TargetDir,
   original_link |-> original_link, pipeline_status |-> Downloaded,
   error_status |-> TRUE, error_condition |-> DownloadFailed,
   rejection_status |-> Unfiltered,
   deleted_at |-> NullTs, updated_at |-> NullTs]

InitTraining ==
  [label |-> WouldWatch, human_labeled |-> FALSE, anomalous |-> FALSE,
   reviewed |-> FALSE, updated_at |-> NullTs, label_at |-> NullTs]

\* Paths a reject of the media row may try.
CandidatePaths(row) ==
  IF row.parent_path = NoPath THEN {}
  ELSE SeqToSet(PathsToTry(row.parent_path, row.target_path,
                           DetectMediaType(row.parent_path)))

LibraryCopy == Join(LibMovies, TargetDir)
TvLibraryCopy == Join(LibTv, TargetDir)
CacheCopy == Join(Join(cache_path, <<"complete">>), TargetDir)

\* A row as a listing sees it: its identifier (imdb_id or hash; installed_rank
\* for the migration history), the default sort column and another column of
\* the allow-list, each value standing by its rank in the column's order.
ListedRow(ident, created, other) == [ident |-> ident, created |-> created, other |-> other]

Relations == {"training", "media", "prediction", "movies", "flyway"}

\* Rows with distinct identifiers; two tie on the default sort column.
UniqueRows == {ListedRow(1, 1, 2), ListedRow(2, 1, 1), ListedRow(3, 2, 1)}

\* Rows of which two carry the same imdb_id and the same created_at.
RepeatedRows == {ListedRow(1, 1, 1), ListedRow(1, 1, 2), ListedRow(2, 2, 1)}

\* Every relation keyed by its identifier.
CatalogUnique == [rel \in Relations |-> UniqueRows]

\* atp.prediction holds two predictions of one imdb_id, which the movie view
\* joins to the one training row; training, media and the history are keyed.
CatalogRepeated ==
  [rel \in Relations |->
     IF rel \in {"prediction", "movies"} THEN RepeatedRows ELSE UniqueRows]

\* The deployments the service starts in: the item's media row (stored path in
\* the library, outside it or absent; link plain, with a trailing slash or
\* absent), the copies on disk, the torrents in the daemon and the
\* file-deletion flag.
Scenarios ==
  {[row |-> MediaRow(LibMovies, LinkPlain), fs |-> c[1], torrents |-> c[2],
    enabled |-> TRUE] :
     c \in {<<{}, {}>>, <<{LibraryCopy}, {}>>, <<{LibraryCopy}, {"h1"}>>,
            <<{LibraryCopy, CacheCopy}, {"h1"}>>}}
  \cup
  {[row |-> MediaRow(NonexistentParent, LinkSlash), fs |-> {TvLibraryCopy, CacheCopy},
    torrents |-> {"h1"}, enabled |-> TRUE],
   [row |-> MediaRow(LibMovies, NoPath), fs |-> {LibraryCopy}, torrents |-> {"h1"},
    enabled |-> TRUE],
   [row |-> MediaRow(NoPath, LinkPlain), fs |-> {}, torrents |-> {"h1"},
    enabled |-> TRUE],
   [row |-> MediaRow(LibMovies, LinkPlain), fs |-> {LibraryCopy}, torrents |-> {"h1"},
    enabled |-> FALSE]}

Init ==
  /\ \E sc \in Scenarios :
       /\ media = [h \in MediaHashes |-> sc.row]
       /\ fs = sc.fs
       /\ torrents = sc.torrents
       /\ file_deletion_enabled = sc.enabled
  /\ training = [id \in TrainIds |-> InitTraining]
  /\ now = 0
  /\ calls = 0
  /\ req = [s \in Slots |-> IdleReq]
  /\ catalog = CatalogUnique
  /\ connections = 0

\* What one call of a Record Store write does: the result it returns and the
\* table and clock it leaves.
StoreFailure(error, table) ==
  [success |-> FALSE, error |-> error, table |-> table, now |-> now,
   written_at |-> NullTs]

StoreSuccess(table) ==
  [success |-> TRUE, error |-> "", table |-> table, now |-> now + 1,
   written_at |-> now + 1]

\* DatabaseService.update_training_fields: existence check, dynamic UPDATE and
\* commit on the call's own connection; any exception rolls back.
UpdateTrainingFields(imdb_id, label, human_labeled, anomalous, reviewed) ==
  {StoreFailure(ErrDatabase, training)} \cup
  {IF imdb_id \notin TrainIds
   THEN StoreFailure(ErrTrainingNotFound, training)
   ELSE IF TrainingUpdateFields(label, human_labeled, anomalous, reviewed) = {}
   THEN StoreFailure(ErrNoFields, training)
   ELSE StoreSuccess([training EXCEPT ![imdb_id] =
          TrainingRowAfterPatch(@, label, human_labeled, anomalous, reviewed, now + 1)])}

\* DatabaseService.update_label
UpdateLabelCall(imdb_id, label) ==
  {StoreFailure(ErrDatabase, training)} \cup
  {IF imdb_id \notin TrainIds
   THEN StoreFailure(ErrTrainingNotFound, training)
   ELSE StoreSuccess([training EXCEPT ![imdb_id] =
          TrainingRowAfterLabel(@, label, now + 1)])}

\* Variant: the field check comes before the existence check.
UpdateMediaPipelineCall_FieldsFirst(hash, pipeline_status, error_status, rejection_status, clear_error_condition) ==
  {StoreFailure(ErrDatabase, media)} \cup
  {IF MediaUpdateFields(pipeline_status, error_status, rejection_status,
                        clear_error_condition) = {}
   THEN StoreFailure(ErrNoFields, media)
   ELSE IF hash \notin MediaHashes
   THEN StoreFailure(ErrMediaNotFound, media)
   ELSE StoreSuccess([media EXCEPT ![hash] =
          MediaRowAfterPipeline(@, pipeline_status, error_status, rejection_status,
                                clear_error_condition, now + 1)])}

\* DatabaseService.update_media_pipeline: existence check, dynamic UPDATE and
\* commit on the call's own connection; any exception rolls back.
UpdateMediaPipelineCall(hash, pipeline_status, error_status, rejection_status, clear_error_condition) ==
  {StoreFailure(ErrDatabase, media)} \cup
  {IF hash \notin MediaHashes
   THEN StoreFailure(ErrMediaNotFound, media)
   ELSE IF MediaUpdateFields(pipeline_status, error_status, rejection_status,
                             clear_error_condition) = {}
   THEN StoreFailure(ErrNoFields, media)
   ELSE StoreSuccess([media EXCEPT ![hash] =
          MediaRowAfterPipeline(@, pipeline_status, error_status, rejection_status,
                                clear_error_condition, now + 1)])}

\* Bodies of PATCH /media/{hash}/pipeline requests.
MediaPipelinePatches ==
  {[pipeline_status |-> Complete, error_status |-> {}, rejection_status |-> NoValue,
    clear_error_condition |-> FALSE],
   [pipeline_status |-> NoValue, error_status |-> {FALSE}, rejection_status |-> NoValue,
    clear_error_condition |-> TRUE],
   [pipeline_status |-> NoValue, error_status |-> {}, rejection_status |-> NoValue,
    clear_error_condition |-> TRUE],
   [pipeline_status |-> NoValue, error_status |-> {}, rejection_status |-> NoValue,
    clear_error_condition |-> FALSE]}

\* routers/media.py lines 95-101: the arguments the router hands to the store;
\* clear_error_condition is left at the store's default.
PipelineCallOfRouter(hash, body) ==
  UpdateMediaPipelineCall(hash, body.pipeline_status, body.error_status,
                          body.rejection_status, FALSE)

\* Variant: every failure of the patch is answered with 400.
PipelineFailureStatus_Always400(error) == 400

\* routers/media.py lines 110-113: HTTP status of a failed pipeline patch.
PipelineFailureStatus(error) == IF error = ErrMediaNotFound THEN 404 ELSE 400

\* Bodies of PATCH /training/{imdb_id} requests.
TrainingPatches ==
  {[label |-> WouldWatch, human_labeled |-> {}, anomalous |-> {}, reviewed |-> {}],
   [label |-> WouldNotWatch, human_labeled |-> {FALSE}, anomalous |-> {}, reviewed |-> {FALSE}],
   [label |-> NoLabel, human_labeled |-> {TRUE}, anomalous |-> {}, reviewed |-> {}],
   [label |-> NoLabel, human_labeled |-> {}, anomalous |-> {}, reviewed |-> {TRUE}],
   [label |-> NoLabel, human_labeled |-> {FALSE}, anomalous |-> {TRUE}, reviewed |-> {FALSE}],
   [label |-> NoLabel, human_labeled |-> {}, anomalous |-> {}, reviewed |-> {}]}

\* What the response keeps of a finished call.
Finished(r) == [r EXCEPT !.pc = "done", !.paths_to_try = <<>>, !.idx = 0]

\* PATCH /media/{hash}/pipeline, lines 88-93: path and body hashes differ.
UpdateMediaPipelineMismatch(s, hash, body_hash) ==
  /\ Free(s)
  /\ body_hash # hash
  /\ calls' = calls + 1
  /\ req' = [req EXCEPT ![s] = Finished([NewReq("pipeline", hash) EXCEPT
               !.http = 400, !.error = ErrHashMismatch])]
  /\ UNCHANGED <<training, media, fs, torrents, file_deletion_enabled, now, catalog, connections>>

\* PATCH /media/{hash}/pipeline, lines 95-114
UpdateMediaPipeline(s, hash, body) ==
  /\ Free(s)
  /\ calls' = calls + 1
  /\ \E o \in PipelineCallOfRouter(hash, body) :
       /\ media' = o.table
       /\ now' = o.now
       /\ req' = [req EXCEPT ![s] = Finished([NewReq("pipeline", hash) EXCEPT
                    !.http = IF o.success THEN 200 ELSE PipelineFailureStatus(o.error),
                    !.success = o.success, !.error = o.error,
                    !.written_at = o.written_at])]
  /\ UNCHANGED <<training, fs, torrents, file_deletion_enabled, catalog, connections>>

\* PATCH /training/{imdb_id}, lines 72-78: path and body identifiers differ.
UpdateTrainingMismatch(s, imdb_id, body_id) ==
  /\ Free(s)
  /\ body_id # imdb_id
  /\ calls' = calls + 1
  /\ req' = [req EXCEPT ![s] = Finished([NewReq("patch", imdb_id) EXCEPT
               !.http = 200, !.error = "IMDB ID mismatch"])]
  /\ UNCHANGED <<training, media, fs, torrents, file_deletion_enabled, now, catalog, connections>>

\* PATCH /training/{imdb_id}, lines 80-93
UpdateTraining(s, imdb_id, patch) ==
  /\ Free(s)
  /\ calls' = calls + 1
  /\ \E o \in UpdateTrainingFields(imdb_id, patch.label, patch.human_labeled,
                                   patch.anomalous, patch.reviewed) :
       /\ training' = o.table
       /\ now' = o.now
       /\ req' = [req EXCEPT ![s] = Finished([NewReq("patch", imdb_id) EXCEPT
                    !.http = 200, !.success = o.success, !.error = o.error,
                    !.patch_label = IF o.success THEN patch.label ELSE NoLabel,
                    !.updated_fields =
                       IF o.success
                       THEN TrainingUpdatedFields(patch.label, patch.human_labeled,
                                                  patch.anomalous, patch.reviewed)
                       ELSE NoFields,
                    !.written_at = o.written_at])]
  /\ UNCHANGED <<media, fs, torrents, file_deletion_enabled, catalog, connections>>

\* DatabaseService.update_label called for one item
UpdateLabel(s, imdb_id, label) ==
  /\ Free(s)
  /\ calls' = calls + 1
  /\ \E o \in UpdateLabelCall(imdb_id, label) :
       /\ training' = o.table
       /\ now' = o.now
       /\ req' = [req EXCEPT ![s] = Finished([NewReq("update_label", imdb_id) EXCEPT
                    !.http = 200, !.success = o.success, !.error = o.error,
                    !.patch_label = IF o.success THEN label ELSE NoLabel,
                    !.written_at = o.written_at])]
  /\ UNCHANGED <<media, fs, torrents, file_deletion_enabled, catalog, connections>>

\* ------------------------------------------------------------------ reject
\* reject_training lines 150-157: after the file step, the torrent step.
ToTorrent(r) ==
  IF r.original_link # NoPath /\ TorrentHashOf(r.original_link) # ""
  THEN [r EXCEPT !.pc = "t_lookup", !.torrent_removed = FALSE,
                 !.torrent_hash = TorrentHashOf(r.original_link),
                 !.delete_data = FALSE, !.t_called = TRUE]
  ELSE Finished([r EXCEPT !.http = 200, !.torrent_removed = FALSE])

WithFileOutcome(r, outcome) ==
  [r EXCEPT !.file_deleted = outcome.file_deleted,
            !.file_deletion_warning = outcome.file_deletion_warning]

\* Variant: the loop ends at the first candidate it deleted.
NextPath_StopsAtFirst(r) ==
  IF r.idx < Len(r.paths_to_try) /\ r.deleted_paths = <<>>
  THEN [r EXCEPT !.idx = r.idx + 1, !.pc = "fs_exists"]
  ELSE ToTorrent(WithFileOutcome(r, RejectFileOutcome(DeleteMediaResponse(r.deleted_paths))))

\* delete_media lines 107-127: the next candidate, or the response.
NextPath(r) ==
  IF r.idx < Len(r.paths_to_try)
  THEN [r EXCEPT !.idx = r.idx + 1, !.pc = "fs_exists"]
  ELSE ToTorrent(WithFileOutcome(r, RejectFileOutcome(DeleteMediaResponse(r.deleted_paths))))

\* reject_training lines 107-116: the authoritative write.
RejectWrite(s, imdb_id) ==
  /\ Free(s)
  /\ calls' = calls + 1
  /\ \E o \in UpdateTrainingFields(imdb_id, WouldNotWatch, {}, {}, {}) :
       /\ training' = o.table
       /\ now' = o.now
       /\ req' = [req EXCEPT ![s] =
            IF RejectProceeds(o)
            THEN [NewReq("reject", imdb_id) EXCEPT
                    !.pc = "lookup", !.success = o.success, !.patch_label = WouldNotWatch,
                    !.updated_fields = TrainingUpdatedFields(WouldNotWatch, {}, {}, {}),
                    !.written_at = o.written_at]
            ELSE Finished([NewReq("reject", imdb_id) EXCEPT
                    !.error = o.error,
                    !.http = RejectFailureStatus(o.error)])]
  /\ UNCHANGED <<media, fs, torrents, file_deletion_enabled, catalog, connections>>

\* reject_training lines 118-148 up to the first filesystem access.
RejectLookup(s) ==
  /\ req[s].pc = "lookup"
  /\ LET path_result == MediaPathByImdbId(req[s].id)
         r == [req[s] EXCEPT !.lookup_called = TRUE,
                             !.lookup_ok = path_result.success,
                             !.original_link = path_result.original_link]
     IN req' = [req EXCEPT ![s] =
          IF ~path_result.success
          THEN ToTorrent(WithFileOutcome(r,
                 [file_deleted |-> FALSE, file_deletion_warning |-> path_result.message]))
          ELSE IF path_result.parent_path = NoPath \/ path_result.target_path = NoPath
          THEN ToTorrent(WithFileOutcome(r,
                 [file_deleted |-> FALSE, file_deletion_warning |-> MsgNoPathInfo]))
          ELSE IF DeletionSkipped
          THEN ToTorrent(WithFileOutcome([r EXCEPT !.fs_called = TRUE],
                 RejectFileOutcome(DeleteMediaDisabled)))
          ELSE [r EXCEPT !.fs_called = TRUE, !.pc = "fs_exists", !.idx = 1,
                         !.paths_to_try = PathsToTry(path_result.parent_path,
                                             path_result.target_path,
                                             DetectMediaType(path_result.parent_path))]]
  /\ UNCHANGED <<training, media, fs, torrents, file_deletion_enabled, now, calls,
               catalog, connections>>

\* _delete_path line 33: os.path.exists(path)
FsExists(s) ==
  /\ req[s].pc = "fs_exists"
  /\ LET path == req[s].paths_to_try[req[s].idx]
         r == [req[s] EXCEPT !.tried = Append(@, path)]
     IN req' = [req EXCEPT ![s] =
          IF path \in fs
          THEN [r EXCEPT !.pc = "fs_delete", !.existed = r.existed + 1]
          ELSE NextPath(r)]
  /\ UNCHANGED <<training, media, fs, torrents, file_deletion_enabled, now, calls,
               catalog, connections>>

\* Variant: a deletion that fails takes the label write back.
FsDelete_UndoesLabel(s) ==
  /\ req[s].pc = "fs_delete"
  /\ LET r == req[s]
         path == r.paths_to_try[r.idx]
     IN \/ /\ path \in fs
           /\ fs' = {q \in fs : ~IsPrefix(path, q)}
           /\ training' = training
           /\ req' = [req EXCEPT ![s] =
                NextPath([r EXCEPT !.deleted_paths = Append(r.deleted_paths, path)])]
        \/ /\ fs' = fs
           /\ training' = [training EXCEPT ![r.id] = InitTraining]
           /\ req' = [req EXCEPT ![s] = NextPath([r EXCEPT !.failures = r.failures + 1])]
  /\ UNCHANGED <<media, torrents, file_deletion_enabled, now, calls, catalog, connections>>

\* _delete_path lines 37-57: unlink / rmtree, or the error that is caught.
FsDelete(s) ==
  /\ req[s].pc = "fs_delete"
  /\ LET r == req[s]
         path == r.paths_to_try[r.idx]
     IN \/ /\ path \in fs
           /\ fs' = {q \in fs : ~IsPrefix(path, q)}
           /\ req' = [req EXCEPT ![s] =
                NextPath([r EXCEPT !.deleted_paths = Append(r.deleted_paths, path)])]
        \/ /\ fs' = fs
           /\ req' = [req EXCEPT ![s] = NextPath([r EXCEPT !.failures = r.failures + 1])]
  /\ UNCHANGED <<training, media, torrents, file_deletion_enabled, now, calls,
               catalog, connections>>

\* ------------------------------------------------- download-daemon gateway
\* Variant: a gateway failure is turned into a failure of the request.
AfterTorrent_FailsOnError(r) ==
  IF r.kind = "reject"
  THEN Finished([r EXCEPT !.http = IF r.t_error # "" THEN 500 ELSE 200,
                 !.success = (r.t_error = ""),
                 !.torrent_removed = r.t_found])
  ELSE [r EXCEPT !.pc = "sd_select"]

\* The caller's use of remove_torrent's result.
AfterTorrent(r) ==
  IF r.kind = "reject"
  THEN Finished([r EXCEPT !.http = 200,
                 !.torrent_removed = RejectTorrentOutcome(
                                     [success |-> r.t_success, found |-> r.t_found])])
  ELSE [r EXCEPT !.pc = "sd_select"]

\* torrent.name of the torrent with the given hash.
TorrentName(hash) == <<"torrent", hash>>

\* Variant: an absent torrent is reported as a failed removal.
RemoveTorrentAbsent_AsFailure(r) ==
  [r EXCEPT !.t_success = FALSE, !.t_found = FALSE, !.t_error = ErrTransmission]

\* remove_torrent lines 73-78: get_torrent finds no torrent with the hash.
RemoveTorrentAbsent(r) == [r EXCEPT !.t_success = TRUE, !.t_found = FALSE]

\* remove_torrent lines 66-78: get_client and get_torrent.
TorrentLookup(s) ==
  /\ req[s].pc = "t_lookup"
  /\ LET r == req[s]
     IN \/ req' = [req EXCEPT ![s] = AfterTorrent(
                     [r EXCEPT !.t_success = FALSE, !.t_found = FALSE,
                               !.t_error = ErrConnection])]
        \/ /\ r.torrent_hash \notin torrents
           /\ req' = [req EXCEPT ![s] = AfterTorrent(RemoveTorrentAbsent(
                        [r EXCEPT !.t_connected = TRUE]))]
        \/ /\ r.torrent_hash \in torrents
           /\ req' = [req EXCEPT ![s] = [r EXCEPT !.pc = "t_remove", !.t_seen = TRUE,
                                                  !.t_connected = TRUE,
                                                  !.t_name = TorrentName(r.torrent_hash)]]
  /\ UNCHANGED <<training, media, fs, torrents, file_deletion_enabled, now, calls,
               catalog, connections>>

\* remove_torrent lines 80-106: the removal RPC.
TorrentRemove(s) ==
  /\ req[s].pc = "t_remove"
  /\ LET r == [req[s] EXCEPT !.t_rpcs = req[s].t_rpcs + 1]
     IN \/ /\ torrents' = torrents \ {r.torrent_hash}
           /\ req' = [req EXCEPT ![s] = AfterTorrent(
                        [r EXCEPT !.t_success = TRUE, !.t_found = TRUE])]
        \/ /\ torrents' \in {torrents, torrents \ {r.torrent_hash}}
           /\ req' = [req EXCEPT ![s] = AfterTorrent(
                        [r EXCEPT !.t_success = FALSE, !.t_found = FALSE,
                                  !.t_error = ErrTransmission])]
  /\ UNCHANGED <<training, media, fs, file_deletion_enabled, now, calls, catalog, connections>>

\* -------------------------------------------------------------- soft delete
\* Variant: the conflict is not told apart from a missing row.
SoftDeleteStatus_NoConflict(error) ==
  IF error \in {ErrMediaNotFound, ErrAlreadyDeleted} THEN 404 ELSE 400

\* HTTP status of a failed soft delete, routers/media.py lines 157-159.
SoftDeleteStatus(error) ==
  IF error = ErrAlreadyDeleted THEN 409
  ELSE IF error = ErrMediaNotFound THEN 404
  ELSE 400

\* Variant: the note is appended whatever the removal did.
SoftDeleteMessage_AlwaysNotes(found) == <<MsgSoftDeleted, NoteAlsoRemoved>>

\* routers/media.py lines 147-149: the message of a successful soft delete, as
\* the parts it is put together from.
SoftDeleteMessage(found) ==
  IF found THEN <<MsgSoftDeleted, NoteAlsoRemoved>> ELSE <<MsgSoftDeleted>>

SoftDeleteFailed(r, error) ==
  Finished([r EXCEPT !.success = FALSE, !.error = error,
                     !.http = SoftDeleteStatus(error)])

\* Variant: the row is checked first and the daemon is left alone.
SoftDeleteStart_RowFirst(s, hash) ==
  /\ Free(s)
  /\ calls' = calls + 1
  /\ req' = [req EXCEPT ![s] = [NewReq("soft_delete", hash) EXCEPT
               !.pc = "sd_select", !.torrent_hash = hash,
               !.saw_deleted = (hash \in MediaHashes /\ media[hash].deleted_at # NullTs)]]
  /\ UNCHANGED <<training, media, fs, torrents, file_deletion_enabled, now, catalog, connections>>

\* PATCH /media/{hash}/soft_delete lines 130-134: the torrent removal is first.
SoftDeleteStart(s, hash) ==
  /\ Free(s)
  /\ calls' = calls + 1
  /\ req' = [req EXCEPT ![s] = [NewReq("soft_delete", hash) EXCEPT
               !.pc = "t_lookup", !.torrent_hash = hash, !.delete_data = TRUE,
               !.t_called = TRUE,
               !.saw_deleted = (hash \in MediaHashes /\ media[hash].deleted_at # NullTs)]]
  /\ UNCHANGED <<training, media, fs, torrents, file_deletion_enabled, now, catalog, connections>>

\* soft_delete_media lines 808-830: SELECT deleted_at.
SoftDeleteSelect(s) ==
  /\ req[s].pc = "sd_select"
  /\ LET r == req[s]
     IN \/ req' = [req EXCEPT ![s] = SoftDeleteFailed(r, ErrDatabase)]
        \/ /\ r.id \notin MediaHashes
           /\ req' = [req EXCEPT ![s] = SoftDeleteFailed(r, ErrMediaNotFound)]
        \/ /\ r.id \in MediaHashes
           /\ media[r.id].deleted_at # NullTs
           /\ req' = [req EXCEPT ![s] = SoftDeleteFailed(r, ErrAlreadyDeleted)]
        \/ /\ r.id \in MediaHashes
           /\ media[r.id].deleted_at = NullTs
           /\ req' = [req EXCEPT ![s] = [r EXCEPT !.pc = "sd_update"]]
  /\ UNCHANGED <<training, media, fs, torrents, file_deletion_enabled, now, calls,
               catalog, connections>>

\* soft_delete_media lines 832-843: UPDATE and commit; routers/media.py 145-154.
SoftDeleteUpdate(s) ==
  /\ req[s].pc = "sd_update"
  /\ LET r == req[s]
     IN \/ /\ req' = [req EXCEPT ![s] = SoftDeleteFailed(r, ErrDatabase)]
           /\ UNCHANGED <<media, now>>
        \/ /\ now' = now + 1
           /\ media' = [media EXCEPT ![r.id] = MediaRowAfterSoftDelete(@, now + 1)]
           /\ req' = [req EXCEPT ![s] = Finished([r EXCEPT
                        !.success = TRUE, !.http = 200,
                        !.message = SoftDeleteMessage(r.t_found),
                        !.written_at = now + 1, !.also_removed = r.t_found])]
  /\ UNCHANGED <<training, fs, torrents, file_deletion_enabled, calls, catalog, connections>>

\* ------------------------------------------------------------ media listing
\* Variant: the WHERE clause without the deleted_at condition.
MediaMatches_NoDeletedFilter(row_hash, hash, pipeline_status) ==
  /\ hash # "" => row_hash = hash
  /\ pipeline_status # NoValue => media[row_hash].pipeline_status = pipeline_status

\* get_media_data lines 211-232: the WHERE clause, soft-deleted rows excluded.
MediaMatches(row_hash, hash, pipeline_status) ==
  /\ hash # "" => row_hash = hash
  /\ pipeline_status # NoValue => media[row_hash].pipeline_status = pipeline_status
  /\ media[row_hash].deleted_at = NullTs

ListFailed(r) ==
  Finished([r EXCEPT !.http = 500, !.error = ErrFetchMedia])

\* GET /media: get_media_data lines 234-237, the COUNT(*) query.  limit and
\* offset stay at their defaults, so the page holds every matching row.
ListCount(s, hash, pipeline_status) ==
  /\ Free(s)
  /\ calls' = calls + 1
  /\ LET r == [NewReq("list", hash) EXCEPT !.filter_status = pipeline_status]
     IN \/ req' = [req EXCEPT ![s] = ListFailed(r)]
        \/ req' = [req EXCEPT ![s] = [r EXCEPT !.pc = "list_select",
                     !.total = Cardinality({h \in MediaHashes :
                                  MediaMatches(h, hash, pipeline_status)})]]
  /\ UNCHANGED <<training, media, fs, torrents, file_deletion_enabled, now, catalog, connections>>

\* get_media_data lines 239-288: the SELECT on the same connection.
ListSelect(s) ==
  /\ req[s].pc = "list_select"
  /\ LET r == req[s]
     IN \/ req' = [req EXCEPT ![s] = ListFailed([r EXCEPT !.total = 0])]
        \/ req' = [req EXCEPT ![s] = Finished([r EXCEPT !.http = 200, !.success = TRUE,
                     !.data = {h \in MediaHashes :
                                 MediaMatches(h, r.id, r.filter_status)}])]
  /\ UNCHANGED <<training, media, fs, torrents, file_deletion_enabled, now, calls,
               catalog, connections>>

\* DatabaseService.get_media_by_hash called for one hash.
GetMediaByHash(s, hash) ==
  /\ Free(s)
  /\ calls' = calls + 1
  /\ LET r == NewReq("get", hash)
     IN \/ req' = [req EXCEPT ![s] = Finished([r EXCEPT !.error = ErrDatabase])]
        \/ /\ hash \notin MediaHashes
           /\ req' = [req EXCEPT ![s] = Finished([r EXCEPT !.error = ErrMediaNotFound])]
        \/ /\ hash \in MediaHashes
           /\ media[hash].deleted_at # NullTs
           /\ req' = [req EXCEPT ![s] = Finished([r EXCEPT !.error = ErrMediaDeleted])]
        \/ /\ hash \in MediaHashes
           /\ media[hash].deleted_at = NullTs
           /\ req' = [req EXCEPT ![s] = Finished([r EXCEPT !.success = TRUE,
                        !.data = {hash}, !.total = 1])]
  /\ UNCHANGED <<training, media, fs, torrents, file_deletion_enabled, now, catalog, connections>>

\* ------------------------------------------------------------- add_torrent
\* The info hash the daemon derives from a link: its trailing segment.
InfoHashOf(torrent_link) == TorrentHashOf(torrent_link)

\* Variant: a duplicate reported by the daemon is returned as a failure.
AddTorrentDuplicate_AsFailure(r) ==
  Finished([r EXCEPT !.success = FALSE, !.already_exists = FALSE,
                     !.error = ErrTransmission, !.t_error = ErrTransmission,
                     !.dup_reported = TRUE])

\* add_torrent lines 147-159: TransmissionError whose text says duplicate.
AddTorrentDuplicate(r) ==
  Finished([r EXCEPT !.success = TRUE, !.already_exists = TRUE, !.dup_reported = TRUE])

\* add_torrent lines 118-134: get_client, then get_torrent when a hash is given.
AddTorrentStart(s, torrent_link, hash) ==
  /\ Free(s)
  /\ calls' = calls + 1
  /\ LET r == [NewReq("add", InfoHashOf(torrent_link)) EXCEPT
                 !.original_link = torrent_link, !.torrent_hash = hash]
     IN \/ req' = [req EXCEPT ![s] = Finished([r EXCEPT !.success = FALSE,
                       !.error = ErrConnection, !.t_error = ErrConnection])]
        \/ /\ hash # ""
           /\ hash \in torrents
           /\ req' = [req EXCEPT ![s] = Finished([r EXCEPT !.success = TRUE,
                        !.already_exists = TRUE, !.t_seen = TRUE,
                        !.t_name = TorrentName(hash)])]
        \/ /\ hash = "" \/ hash \notin torrents
           /\ req' = [req EXCEPT ![s] = [r EXCEPT !.pc = "t_add"]]
  /\ UNCHANGED <<training, media, fs, torrents, file_deletion_enabled, now, catalog, connections>>

\* add_torrent lines 136-172: the add RPC.  The daemon keeps one torrent per
\* info hash; the client library reports a duplicate either as an error or by
\* returning the torrent already held.
AddTorrentRpc(s) ==
  /\ req[s].pc = "t_add"
  /\ LET r == [req[s] EXCEPT !.t_rpcs = req[s].t_rpcs + 1]
     IN \/ /\ r.id \notin torrents
           /\ torrents' = torrents \cup {r.id}
           /\ req' = [req EXCEPT ![s] = Finished([r EXCEPT !.success = TRUE,
                        !.already_exists = FALSE, !.t_name = TorrentName(r.id)])]
        \/ /\ r.id \in torrents
           /\ torrents' = torrents
           /\ \/ req' = [req EXCEPT ![s] = AddTorrentDuplicate(r)]
              \/ req' = [req EXCEPT ![s] = Finished([r EXCEPT !.success = TRUE,
                           !.already_exists = FALSE, !.t_name = TorrentName(r.id)])]
        \/ /\ torrents' \in {torrents, torrents \cup {r.id}}
           /\ \E e \in {ErrTransmission, ErrConnection} :
                req' = [req EXCEPT ![s] = Finished([r EXCEPT !.success = FALSE,
                          !.already_exists = FALSE, !.error = e, !.t_error = e])]
  /\ UNCHANGED <<training, media, fs, file_deletion_enabled, now, calls, catalog, connections>>

\* ---------------------------------------------------------- paged listings
\* str.lower() on the sort orders a request carries.
Lower(text) ==
  IF text = "ASC" THEN "asc" ELSE IF text = "DESC" THEN "desc" ELSE text

SortOrders == {"asc", "desc"}

\* The allow-list of each listing: valid_sort_fields in the store; the media
\* listing has none there, its list is the pattern of routers/media.py line 29.
ValidSortFields(rel) ==
  IF rel = "training"
  THEN {"created_at", "updated_at", "media_title", "release_year", "media_type",
        "label", "imdb_id", "tmdb_id", "budget", "revenue", "runtime",
        "original_language", "tmdb_rating", "tmdb_votes", "rt_score", "metascore",
        "imdb_rating", "imdb_votes", "human_labeled", "anomalous", "reviewed"}
  ELSE IF rel = "media"
  THEN {"created_at", "updated_at", "release_year", "media_title", "imdb_rating"}
  ELSE IF rel = "prediction"
  THEN {"imdb_id", "prediction", "probability", "cm_value", "created_at"}
  ELSE IF rel = "movies"
  THEN {"imdb_id", "tmdb_id", "label", "media_type", "media_title", "season",
        "episode", "release_year", "budget", "revenue", "runtime", "origin_country",
        "production_companies", "production_countries", "production_status",
        "original_language", "spoken_languages", "genre", "original_media_title",
        "tagline", "overview", "tmdb_rating", "tmdb_votes", "rt_score", "metascore",
        "imdb_rating", "imdb_votes", "human_labeled", "anomalous", "reviewed",
        "prediction", "probability", "cm_value", "training_created_at",
        "training_updated_at", "prediction_created_at"}
  ELSE {"installed_rank", "installed_on", "version"}

\* Columns of a relation beyond its allow-list that the model names.
Columns(rel) ==
  ValidSortFields(rel) \cup (IF rel = "media" THEN {"hash", "pipeline_status"} ELSE {})

DefaultSortField(rel) ==
  IF rel = "movies" THEN "training_created_at"
  ELSE IF rel = "flyway" THEN "installed_rank"
  ELSE "created_at"

DefaultSortOrder(rel) == IF rel = "flyway" THEN "asc" ELSE "desc"

\* The Query(...) declarations of the routers: the training router takes any
\* sort_by, sort_order, limit and offset; the others match patterns and ranges.
RouterRejects(rel, sort_by, sort_order, limit, offset) ==
  /\ rel # "training"
  /\ \/ sort_by \notin ValidSortFields(rel)
     \/ sort_order \notin SortOrders
     \/ rel # "flyway" /\ (limit < 1 \/ limit > 1000 \/ offset < 0)

\* The sort_by the store places into the query text: validated against
\* valid_sort_fields, except in get_media_data, which has no such check.
StoreSortBy(rel, sort_by) ==
  IF rel # "media" /\ sort_by \notin ValidSortFields(rel)
  THEN DefaultSortField(rel)
  ELSE sort_by

\* The sort_order the store places into the query text.
StoreSortOrder(rel, sort_order) ==
  IF rel = "media" THEN sort_order
  ELSE IF Lower(sort_order) \notin SortOrders THEN DefaultSortOrder(rel)
  ELSE Lower(sort_order)

\* The database runs ORDER BY <column> <direction> for a column of the
\* relation and a direction keyword, which it reads in either case.
QueryRuns(rel, field, dir) == field \in Columns(rel) /\ Lower(dir) \in SortOrders

\* The value a row is sorted by.
SortKey(row, rel, field) ==
  IF field \in {"imdb_id", "hash", "installed_rank"} THEN row.ident
  ELSE IF field = DefaultSortField(rel) THEN row.created
  ELSE row.other

\* ORDER BY {sort_by} {sort_order}, imdb_id ASC (hash ASC for media; the
\* history has no second term): a may be returned before b.
MayPrecede(a, b, rel, field, dir) ==
  LET ka == SortKey(a, rel, field)
      kb == SortKey(b, rel, field)
  IN IF ka # kb THEN (IF Lower(dir) = "asc" THEN ka < kb ELSE ka > kb)
     ELSE IF rel # "flyway" /\ a.ident # b.ident THEN a.ident < b.ident
     ELSE TRUE

\* The orders in which the database may return the rows: rows that the
\* ORDER BY does not tell apart come in any order.
Orderings(rows, rel, field, dir) ==
  {o \in [1..Cardinality(rows) -> rows] :
     \A i, j \in 1..Cardinality(rows) :
        i < j => o[i] # o[j] /\ MayPrecede(o[i], o[j], rel, field, dir)}

Min(a, b) == IF a < b THEN a ELSE b

\* LIMIT %s OFFSET %s
PageOf(o, limit, offset) ==
  [i \in 1..Min(limit, Len(o) - offset) |-> o[offset + i]]

\* get_training_data lines 145 and 152: the next cursor, <<>> for None.
NextCursor(limit, offset, total) ==
  IF offset + limit < total
  THEN <<"/rear-diff/training?offset=", offset + limit, "&limit=", limit>>
  ELSE <<>>

\* Variant: the previous offset is clamped at the first row.
PreviousCursor_Clamped(limit, offset) ==
  IF offset > 0
  THEN <<"/rear-diff/training?offset=", IF offset > limit THEN offset - limit ELSE 0,
         "&limit=", limit>>
  ELSE <<>>

\* get_training_data lines 146 and 153: the previous cursor, <<>> for None.
PreviousCursor(limit, offset) ==
  IF offset > 0
  THEN <<"/rear-diff/training?offset=", offset - limit, "&limit=", limit>>
  ELSE <<>>

\* "has_more": (offset + limit) < total_count
HasMore(limit, offset, total) == (offset + limit) < total

ListOperation(rel) ==
  IF rel = "training" THEN "get_training_data"
  ELSE IF rel = "media" THEN "get_media_data"
  ELSE IF rel = "prediction" THEN "get_prediction_data"
  ELSE IF rel = "movies" THEN "get_movie_data"
  ELSE "get_flyway_schema_history"

ListRelation(kind) == CHOOSE rel \in Relations : ListOperation(rel) = kind

ListKinds == {ListOperation(rel) : rel \in Relations}

\* The exception of a listing leaves the store; a router answers it with 500.
ListRaised(r) ==
  Finished([r EXCEPT !.raised = TRUE, !.error = ErrDatabase,
                     !.http = IF r.routed THEN 500 ELSE 0])

\* The result of a listing whose query returned the rows in order o.
ListReturned(r, rel, o) ==
  LET total == Len(o)
      paged == [r EXCEPT !.http = 200, !.success = TRUE, !.total = total]
  IN Finished(
       IF rel = "flyway" THEN [paged EXCEPT !.page = o]
       ELSE IF rel = "training"
       THEN [paged EXCEPT !.page = PageOf(o, r.limit, r.offset),
                          !.next = NextCursor(r.limit, r.offset, total),
                          !.previous = PreviousCursor(r.limit, r.offset)]
       ELSE [paged EXCEPT !.page = PageOf(o, r.limit, r.offset),
                          !.has_more = HasMore(r.limit, r.offset, total)])

\* One listing call: the router's parameter validation when the call comes
\* through a router, then the store's COUNT and SELECT on one connection.
Listing(s, rel, routed, sort_by, sort_order, limit, offset) ==
  /\ Free(s)
  /\ calls' = calls + 1
  /\ LET field == StoreSortBy(rel, sort_by)
         dir == StoreSortOrder(rel, sort_order)
         r == [NewReq(ListOperation(rel), "") EXCEPT
                 !.routed = routed, !.sort_by = sort_by, !.sort_order = sort_order,
                 !.limit = limit, !.offset = offset]
         q == [r EXCEPT !.order_by = <<field, dir>>]
     IN IF routed /\ RouterRejects(rel, sort_by, sort_order, limit, offset)
        THEN req' = [req EXCEPT ![s] = Finished([r EXCEPT !.http = 422])]
        ELSE \/ req' = [req EXCEPT ![s] = ListRaised(r)]
             \/ /\ ~QueryRuns(rel, field, dir)
                /\ req' = [req EXCEPT ![s] = ListRaised(q)]
             \/ /\ QueryRuns(rel, field, dir)
                /\ \E o \in Orderings(catalog[rel], rel, field, dir) :
                     req' = [req EXCEPT ![s] = ListReturned(q, rel, o)]
  /\ UNCHANGED <<training, media, fs, torrents, file_deletion_enabled, now, catalog,
                 connections>>

\* GET /training (routers/training.py lines 18-60)
GetTrainingData(s, sort_by, sort_order, limit, offset) ==
  Listing(s, "training", TRUE, sort_by, sort_order, limit, offset)

\* GET /media: the order and page of the listing (routers/media.py lines 18-71)
GetMedia(s, sort_by, sort_order, limit, offset) ==
  Listing(s, "media", TRUE, sort_by, sort_order, limit, offset)

\* DatabaseService.get_media_data called with the given arguments.
GetMediaData(s, sort_by, sort_order, limit, offset) ==
  Listing(s, "media", FALSE, sort_by, sort_order, limit, offset)

\* GET /prediction (routers/prediction.py lines 16-57)
GetPredictions(s, sort_by, sort_order, limit, offset) ==
  Listing(s, "prediction", TRUE, sort_by, sort_order, limit, offset)

\* GET /movies (routers/movies.py)
GetMovies(s, sort_by, sort_order, limit, offset) ==
  Listing(s, "movies", TRUE, sort_by, sort_order, limit, offset)

\* GET /rear-diff/flyway (main.py); the history is not paged.
GetFlywayHistory(s, sort_by, sort_order) ==
  Listing(s, "flyway", TRUE, sort_by, sort_order, 0, 0)


\* ------------------------------------------- Record Store, statement by statement
\* The write operations and the listing operations of DatabaseService.
WriteOps ==
  {"update_label", "update_reviewed", "update_training_fields",
   "update_media_pipeline", "soft_delete_media"}

ListingOps == {"get_training_data"}

StoreOps == WriteOps \cup ListingOps

OnTraining(op) ==
  op \in {"update_label", "update_reviewed", "update_training_fields", "get_training_data"}

\* The keys an operation is called with: a listing takes none, and one write
\* on each table is also called for a row that does not exist.
StoreKeys(op) ==
  CASE op \in ListingOps -> {""}
    [] op = "update_label" -> ReqIds
    [] op = "soft_delete_media" -> ReqHashes
    [] OTHER -> IF OnTraining(op) THEN TrainIds ELSE MediaHashes

\* update_reviewed, lines 379-385: the row after the UPDATE.
TrainingRowAfterReviewed(row, ts) ==
  [row EXCEPT !.reviewed = TRUE, !.updated_at = ts]

\* The row a write operation's UPDATE leaves once committed.
RowAfterWrite(op, row, ts) ==
  CASE op = "update_label" -> TrainingRowAfterLabel(row, WouldNotWatch, ts)
    [] op = "update_reviewed" -> TrainingRowAfterReviewed(row, ts)
    [] op = "update_training_fields" ->
         TrainingRowAfterPatch(row, NoLabel, {TRUE}, {}, {}, ts)
    [] op = "update_media_pipeline" ->
         MediaRowAfterPipeline(row, Complete, {}, NoValue, FALSE, ts)
    [] op = "soft_delete_media" -> MediaRowAfterSoftDelete(row, ts)

\* The result a write returns from its existence check, "" when it goes on
\* to the UPDATE.
EarlyReturn(op, key) ==
  IF OnTraining(op)
  THEN (IF key \notin TrainIds THEN ErrTrainingNotFound ELSE "")
  ELSE IF key \notin MediaHashes THEN ErrMediaNotFound
  ELSE IF op = "soft_delete_media" /\ media[key].deleted_at # NullTs
  THEN ErrAlreadyDeleted
  ELSE ""

\* A direct call of a DatabaseService operation: conn = None.
StoreCall(s, op, key) ==
  /\ Free(s)
  /\ calls' = calls + 1
  /\ req' = [req EXCEPT ![s] = [NewReq("store", key) EXCEPT !.op = op, !.pc = "connect"]]
  /\ UNCHANGED <<training, media, fs, torrents, file_deletion_enabled, now, catalog,
               connections>>

\* get_connection line 26: psycopg2.connect opens the connection or raises.
Connect(s) ==
  /\ req[s].pc = "connect"
  /\ \/ /\ connections' = connections + 1
        /\ req' = [req EXCEPT ![s] = [@ EXCEPT !.opened = TRUE, !.pc = "search_path"]]
     \/ /\ connections' = connections
        /\ req' = [req EXCEPT ![s] = [@ EXCEPT !.pc = "except"]]
  /\ UNCHANGED <<training, media, fs, torrents, file_deletion_enabled, now, calls, catalog>>

\* get_connection lines 28-33: SET search_path; the caller's conn is bound
\* only when get_connection returns, and the handler just logs and re-raises.
SetSearchPath(s) ==
  /\ req[s].pc = "search_path"
  /\ \/ req' = [req EXCEPT ![s] = [@ EXCEPT !.conn = TRUE, !.pc = "select"]]
     \/ req' = [req EXCEPT ![s] = [@ EXCEPT !.setup_failed = TRUE, !.pc = "except"]]
  /\ UNCHANGED <<training, media, fs, torrents, file_deletion_enabled, now, calls, catalog,
               connections>>

\* The first statement of the operation: the existence check of a write with
\* its early returns, or the queries of a listing.
StoreSelect(s) ==
  /\ req[s].pc = "select"
  /\ LET r == req[s]
     IN \/ req' = [req EXCEPT ![s] = [r EXCEPT !.pc = "except"]]
        \/ /\ r.op \in ListingOps
           /\ req' = [req EXCEPT ![s] = [r EXCEPT !.success = TRUE, !.pc = "finally"]]
        \/ /\ r.op \in WriteOps
           /\ EarlyReturn(r.op, r.id) # ""
           /\ req' = [req EXCEPT ![s] = [r EXCEPT !.error = EarlyReturn(r.op, r.id),
                                                  !.pc = "finally"]]
        \/ /\ r.op \in WriteOps
           /\ EarlyReturn(r.op, r.id) = ""
           /\ req' = [req EXCEPT ![s] = [r EXCEPT !.pc = "update"]]
  /\ UNCHANGED <<training, media, fs, torrents, file_deletion_enabled, now, calls, catalog,
               connections>>

\* The UPDATE statement, executed inside the connection's open transaction.
StoreUpdate(s) ==
  /\ req[s].pc = "update"
  /\ \/ req' = [req EXCEPT ![s] = [@ EXCEPT !.pending = TRUE, !.pc = "commit"]]
     \/ req' = [req EXCEPT ![s] = [@ EXCEPT !.pc = "except"]]
  /\ UNCHANGED <<training, media, fs, torrents, file_deletion_enabled, now, calls, catalog,
               connections>>

\* conn.commit() and the success result, or the exception commit raises.
StoreCommit(s) ==
  /\ req[s].pc = "commit"
  /\ LET r == req[s]
     IN \/ /\ now' = now + 1
           /\ IF OnTraining(r.op)
              THEN /\ training' = [training EXCEPT ![r.id] = RowAfterWrite(r.op, @, now + 1)]
                   /\ media' = media
              ELSE /\ media' = [media EXCEPT ![r.id] = RowAfterWrite(r.op, @, now + 1)]
                   /\ training' = training
           /\ req' = [req EXCEPT ![s] = [r EXCEPT !.pending = FALSE, !.committed = TRUE,
                                                  !.success = TRUE, !.written_at = now + 1,
                                                  !.pc = "finally"]]
        \/ /\ req' = [req EXCEPT ![s] = [r EXCEPT !.pc = "except"]]
           /\ UNCHANGED <<training, media, now>>
  /\ UNCHANGED <<fs, torrents, file_deletion_enabled, calls, catalog, connections>>

\* Variant: the exception handler of a write commits what the UPDATE did.
StoreExcept_KeepsUpdate(s) ==
  /\ req[s].pc = "except"
  /\ LET r == req[s]
     IN /\ IF r.pending /\ OnTraining(r.op)
           THEN /\ training' = [training EXCEPT ![r.id] = RowAfterWrite(r.op, @, now)]
                /\ media' = media
           ELSE IF r.pending
           THEN /\ media' = [media EXCEPT ![r.id] = RowAfterWrite(r.op, @, now)]
                /\ training' = training
           ELSE UNCHANGED <<training, media>>
        /\ req' = [req EXCEPT ![s] =
             IF r.op \in WriteOps
             THEN [r EXCEPT !.pending = FALSE, !.success = FALSE, !.error = ErrDatabase,
                            !.pc = "finally"]
             ELSE [r EXCEPT !.raised = TRUE, !.pc = "finally"]]
  /\ UNCHANGED <<fs, torrents, file_deletion_enabled, now, calls, catalog, connections>>

\* except Exception: a write rolls back when conn is bound and returns the
\* 'Database error' result (e.g. lines 343-351); a listing logs and re-raises
\* (e.g. lines 161-163).
StoreExcept(s) ==
  /\ req[s].pc = "except"
  /\ LET r == req[s]
     IN req' = [req EXCEPT ![s] =
          IF r.op \in WriteOps
          THEN [r EXCEPT !.pending = FALSE, !.success = FALSE, !.error = ErrDatabase,
                         !.pc = "finally"]
          ELSE [r EXCEPT !.raised = TRUE, !.pc = "finally"]]
  /\ UNCHANGED <<training, media, fs, torrents, file_deletion_enabled, now, calls, catalog,
               connections>>

\* finally: if conn: conn.close() (e.g. lines 352-354), then the operation
\* returns or the exception leaves it.
StoreFinally(s) ==
  /\ req[s].pc = "finally"
  /\ LET r == req[s]
     IN IF r.conn
        THEN /\ connections' = connections - 1
             /\ req' = [req EXCEPT ![s] = [r EXCEPT !.conn = FALSE, !.opened = FALSE,
                                                    !.pc = "done"]]
        ELSE /\ connections' = connections
             /\ req' = [req EXCEPT ![s] = [r EXCEPT !.pc = "done"]]
  /\ UNCHANGED <<training, media, fs, torrents, file_deletion_enabled, now, calls, catalog>>

\* The connection get_connection opened and never returned is referred to by
\* nothing once the operation is over; the runtime closes it if and when it
\* collects the object.
Collected(s) ==
  /\ req[s].pc = "done"
  /\ req[s].kind = "store"
  /\ req[s].opened
  /\ connections' = connections - 1
  /\ req' = [req EXCEPT ![s] = [@ EXCEPT !.opened = FALSE]]
  /\ UNCHANGED <<training, media, fs, torrents, file_deletion_enabled, now, calls, catalog>>

\* ------------------------------------------------------------ specification
\* The training endpoints: the label writes and the reject orchestration
\* with its file and torrent teardown.
RejectNext ==
  \/ \E s \in Slots, id \in ReqIds : RejectWrite(s, id)
  \/ \E s \in Slots : RejectLookup(s)
  \/ \E s \in Slots : FsExists(s)
  \/ \E s \in Slots : FsDelete(s)
  \/ \E s \in Slots : TorrentLookup(s)
  \/ \E s \in Slots : TorrentRemove(s)
  \/ \E s \in Slots, id \in ReqIds, patch \in TrainingPatches :
       UpdateTraining(s, id, patch)
  \/ \E s \in Slots, id \in ReqIds, body \in ReqIds : UpdateTrainingMismatch(s, id, body)
  \/ \E s \in Slots, id \in ReqIds, label \in Labels : UpdateLabel(s, id, label)

RejectSpec == Init /\ [][RejectNext]_vars

\* The deployments in which the item lies in the movie library with a plain
\* link and deletion enabled; the daemon holds its torrent or not.
StoreInit ==
  /\ Init
  /\ \A h \in MediaHashes : media[h] = MediaRow(LibMovies, LinkPlain)
  /\ fs = {LibraryCopy}
  /\ file_deletion_enabled

\* The endpoints on the media table, with the training patch and the
\* soft-delete workflow running beside them.
MediaNext ==
  \/ \E s \in Slots, h \in ReqHashes, body \in MediaPipelinePatches :
       UpdateMediaPipeline(s, h, body)
  \/ \E s \in Slots, h \in ReqHashes, body \in ReqHashes :
       UpdateMediaPipelineMismatch(s, h, body)
  \/ \E s \in Slots, h \in {""} \cup MediaHashes, st \in {NoValue, Complete} :
       ListCount(s, h, st)
  \/ \E s \in Slots : ListSelect(s)
  \/ \E s \in Slots, h \in ReqHashes : GetMediaByHash(s, h)
  \/ \E s \in Slots, h \in ReqHashes : SoftDeleteStart(s, h)
  \/ \E s \in Slots : TorrentLookup(s)
  \/ \E s \in Slots : TorrentRemove(s)
  \/ \E s \in Slots : SoftDeleteSelect(s)
  \/ \E s \in Slots : SoftDeleteUpdate(s)
  \/ \E s \in Slots, id \in ReqIds, patch \in TrainingPatches :
       UpdateTraining(s, id, patch)
  \/ \E s \in Slots, id \in ReqIds, body \in ReqIds : UpdateTrainingMismatch(s, id, body)

MediaSpec == StoreInit /\ [][MediaNext]_vars

\* The download-daemon gateway: add_torrent beside the removals of the
\* soft-delete workflow.
DaemonNext ==
  \/ \E s \in Slots, link \in {LinkPlain, LinkSlash}, h \in {""} \cup MediaHashes :
       AddTorrentStart(s, link, h)
  \/ \E s \in Slots : AddTorrentRpc(s)
  \/ \E s \in Slots, h \in ReqHashes : SoftDeleteStart(s, h)
  \/ \E s \in Slots : TorrentLookup(s)
  \/ \E s \in Slots : TorrentRemove(s)
  \/ \E s \in Slots : SoftDeleteSelect(s)
  \/ \E s \in Slots : SoftDeleteUpdate(s)

DaemonSpec == StoreInit /\ [][DaemonNext]_vars

\* The sorts a listing is asked for: the default, an allow-listed column,
\* a name outside the list, an unknown direction and an upper-case one.
SortRequests(rel) ==
  {<<DefaultSortField(rel), "desc">>,
   <<IF rel = "prediction" THEN "probability"
     ELSE IF rel = "flyway" THEN "version" ELSE "media_title", "asc">>,
   <<"bogus", "desc">>,
   <<DefaultSortField(rel), "sideways">>,
   <<DefaultSortField(rel), "ASC">>}

\* limit and offset of the pages asked for.
PageRequests == {<<1, 0>>, <<1, 1>>, <<1, 2>>, <<2, 0>>, <<2, 1>>}

\* The listings start on keyed relations or on predictions that repeat an
\* imdb_id.
ListingInit ==
  /\ catalog \in {CatalogUnique, CatalogRepeated}
  /\ media = [h \in MediaHashes |-> MediaRow(LibMovies, LinkPlain)]
  /\ training = [id \in TrainIds |-> InitTraining]
  /\ fs = {LibraryCopy}
  /\ torrents = {}
  /\ file_deletion_enabled = TRUE
  /\ now = 0
  /\ calls = 0
  /\ req = [s \in Slots |-> IdleReq]
  /\ connections = 0

\* The listing endpoints.
ListingNext ==
  \/ \E s \in Slots, so \in SortRequests("training"), pg \in PageRequests :
       GetTrainingData(s, so[1], so[2], pg[1], pg[2])
  \/ \E s \in Slots, so \in SortRequests("media"), pg \in PageRequests :
       GetMedia(s, so[1], so[2], pg[1], pg[2])
  \/ \E s \in Slots, so \in {<<"pipeline_status", "desc">>, <<"bogus", "desc">>},
        pg \in {<<2, 0>>} :
       GetMediaData(s, so[1], so[2], pg[1], pg[2])
  \/ \E s \in Slots, so \in SortRequests("prediction"), pg \in PageRequests :
       GetPredictions(s, so[1], so[2], pg[1], pg[2])
  \/ \E s \in Slots, so \in SortRequests("movies"), pg \in PageRequests :
       GetMovies(s, so[1], so[2], pg[1], pg[2])
  \/ \E s \in Slots, so \in SortRequests("flyway") : GetFlywayHistory(s, so[1], so[2])

ListingSpec == ListingInit /\ [][ListingNext]_vars

\* The paged listings in their default order.
PagingNext ==
  \/ \E s \in Slots, pg \in PageRequests :
       GetTrainingData(s, DefaultSortField("training"), "desc", pg[1], pg[2])
  \/ \E s \in Slots, pg \in PageRequests :
       GetMedia(s, DefaultSortField("media"), "desc", pg[1], pg[2])
  \/ \E s \in Slots, pg \in PageRequests :
       GetPredictions(s, DefaultSortField("prediction"), "desc", pg[1], pg[2])
  \/ \E s \in Slots, pg \in PageRequests :
       GetMovies(s, DefaultSortField("movies"), "desc", pg[1], pg[2])

PagingSpec == ListingInit /\ [][PagingNext]_vars

\* The daemon may hold a torrent the store has no row for.
SoftDeleteInit ==
  /\ torrents \in SUBSET ReqHashes
  /\ media = [h \in MediaHashes |-> MediaRow(LibMovies, LinkPlain)]
  /\ training = [id \in TrainIds |-> InitTraining]
  /\ fs = {LibraryCopy}
  /\ file_deletion_enabled = TRUE
  /\ now = 0
  /\ calls = 0
  /\ req = [s \in Slots |-> IdleReq]
  /\ catalog = CatalogUnique
  /\ connections = 0

\* The soft-delete-by-hash workflow alone.
SoftDeleteNext ==
  \/ \E s \in Slots, h \in ReqHashes : SoftDeleteStart(s, h)
  \/ \E s \in Slots : TorrentLookup(s)
  \/ \E s \in Slots : TorrentRemove(s)
  \/ \E s \in Slots : SoftDeleteSelect(s)
  \/ \E s \in Slots : SoftDeleteUpdate(s)

SoftDeleteSpec == SoftDeleteInit /\ [][SoftDeleteNext]_vars

\* The Record Store operations called directly, each statement a step.
StoreNext ==
  \/ \E s \in Slots, op \in StoreOps : \E key \in StoreKeys(op) : StoreCall(s, op, key)
  \/ \E s \in Slots : Connect(s)
  \/ \E s \in Slots : SetSearchPath(s)
  \/ \E s \in Slots : StoreSelect(s)
  \/ \E s \in Slots : StoreUpdate(s)
  \/ \E s \in Slots : StoreCommit(s)
  \/ \E s \in Slots : StoreExcept(s)
  \/ \E s \in Slots : StoreFinally(s)
  \/ \E s \in Slots : Collected(s)

\* The store as constructed, the daemon holding nothing.
StoreStepInit == StoreInit /\ torrents = {}

StoreSpec == StoreStepInit /\ [][StoreNext]_vars

\* The whole service: every operation beside every other.
Next == RejectNext \/ MediaNext \/ DaemonNext \/ ListingNext \/ StoreNext

Spec == Init /\ [][Next]_vars

TypeOK ==
  /\ now \in 0..MaxCalls
  /\ calls \in 0..MaxCalls
  /\ fs \subseteq UNION {CandidatePaths(media[h]) : h \in MediaHashes}
  /\ torrents \subseteq ReqHashes

\* ------------------------------------------------------------------ claims
RejectDone(r) == r.kind = "reject" /\ r.pc = "done"

\* The label written by call r is committed: it is the row's label unless a
\* later label write replaced it.
LabelPersisted(r) ==
  /\ r.id \in TrainIds
  /\ r.written_at # NullTs
  /\ training[r.id].label_at >= r.written_at
  /\ training[r.id].label_at = r.written_at => training[r.id].label = WouldNotWatch

\* Every deletion the call attempted failed, and it attempted at least one.
AllDeletionsFailed(r) == r.existed >= 1 /\ r.failures = r.existed

\* C1: a reject all of whose filesystem deletions fail (permission or other
\* OS error) still returns success=true with file_deleted=false and a
\* non-empty file_deletion_warning, and the label would_not_watch is persisted.
C1_RejectSurvivesDeletionFailure ==
  \A s \in Slots :
    (RejectDone(req[s]) /\ AllDeletionsFailed(req[s]))
      => /\ req[s].success
         /\ req[s].http = 200
         /\ ~req[s].file_deleted
         /\ req[s].file_deletion_warning # ""
         /\ LabelPersisted(req[s])

C1_Witness ==
  \E s \in Slots :
    /\ RejectDone(req[s])
    /\ req[s].existed = 2
    /\ req[s].failures = 2
    /\ req[s].file_deletion_warning # ""
    /\ training[req[s].id].label = WouldNotWatch

\* The step that issues call number calls + 1 in slot s.
Issues(s) == calls' = calls + 1 /\ req'[s].call = calls + 1

\* C2: every successful training write whose patch set includes label
\* (update_label, update_training_fields with label, reject) leaves the row
\* with that label, human_labeled=true and reviewed=true, whatever the flags
\* were before and whatever the request passed for them.
C2_LabelWriteForcesFlags ==
  [][\A s \in Slots :
       (/\ Issues(s)
        /\ req'[s].kind \in {"patch", "update_label", "reject"}
        /\ req'[s].patch_label # NoLabel
        /\ req'[s].written_at # NullTs)
         => /\ training'[req'[s].id].label = req'[s].patch_label
            /\ training'[req'[s].id].human_labeled
            /\ training'[req'[s].id].reviewed]_vars

\* A patch carrying label together with human_labeled=false and
\* reviewed=false was written over a row whose flags an earlier patch had set.
C2_Witness ==
  \E s \in Slots :
    /\ req[s].kind = "patch"
    /\ req[s].pc = "done"
    /\ req[s].success
    /\ req[s].patch_label = WouldNotWatch
    /\ req[s].call = 2
    /\ training[req[s].id].human_labeled
    /\ training[req[s].id].reviewed
    /\ training[req[s].id].label_at = req[s].written_at

\* C3: a reject of an identifier without a training row ends in its first
\* step with NotFound / 404 (or the store's own failure), changing no row and
\* running no path lookup, file deletion or daemon RPC.
C3_RejectUnknownIdStops ==
  [][\A s \in Slots :
       (Issues(s) /\ req'[s].kind = "reject" /\ req'[s].id \notin TrainIds)
         => /\ req'[s].pc = "done"
            /\ ~req'[s].success
            /\ req'[s].error \in {ErrTrainingNotFound, ErrDatabase}
            /\ req'[s].error = ErrTrainingNotFound => req'[s].http = 404
            /\ ~req'[s].lookup_called
            /\ ~req'[s].fs_called
            /\ ~req'[s].t_called
            /\ req'[s].t_rpcs = 0
            /\ UNCHANGED <<training, media, fs, torrents, now>>]_vars

C3_Witness ==
  \E s \in Slots :
    /\ RejectDone(req[s])
    /\ req[s].id \notin TrainIds
    /\ req[s].http = 404
    /\ req[s].error = ErrTrainingNotFound

\* r2 was invoked after r1 had returned, for the same training row.
SequentialRejects(r1, r2) ==
  /\ RejectDone(r1)
  /\ RejectDone(r2)
  /\ r1.id = r2.id
  /\ r1.id \in TrainIds
  /\ r1.call \in r2.prior

\* What a reject of an existing row answers: success, or the store's failure.
RejectAnswered(r) ==
  /\ r.http = 200
  /\ r.error \in {"", ErrDatabase}
  /\ r.error = "" => (r.success /\ LabelPersisted(r))
  /\ r.error = ErrDatabase => ~r.success

\* C4: reject invoked twice in sequence on the same existing identifier
\* succeeds both times with the label would_not_watch persisted after each,
\* and the second call reports what the first removed as file_deleted=false /
\* torrent_removed=false, not as an error.
C4_RejectIdempotent ==
  \A s \in Slots, t \in Slots :
    SequentialRejects(req[s], req[t])
      => /\ RejectAnswered(req[s])
         /\ RejectAnswered(req[t])
         /\ req[t].success => training[req[t].id].label = WouldNotWatch
         /\ req[s].torrent_removed => ~req[t].torrent_removed
         /\ (req[s].file_deleted /\ req[s].failures = 0)
              => /\ ~req[t].file_deleted
                 /\ req[t].existed = 0
                 /\ req[t].success
                      => req[t].file_deletion_warning \in {MsgNoFilesFound, MsgNoMediaPath}

C4_Witness ==
  \E s \in Slots, t \in Slots :
    /\ SequentialRejects(req[s], req[t])
    /\ req[s].success /\ req[s].file_deleted /\ req[s].torrent_removed
    /\ req[t].success /\ ~req[t].file_deleted /\ ~req[t].torrent_removed
    /\ req[t].file_deletion_warning = MsgNoFilesFound
    /\ training[req[t].id].label = WouldNotWatch

\* C5: with deletion enabled and path data present, reject reports
\* file_deleted=true exactly when it deleted at least one existing candidate
\* path, no path it deleted exists afterwards, and when no candidate exists
\* it answers success=true, file_deleted=false with the informational
\* message; the label is committed either way.
C5_FileDeletedIffDeleted ==
  \A s \in Slots :
    (RejectDone(req[s]) /\ req[s].fs_called /\ file_deletion_enabled)
      => /\ req[s].success
         /\ req[s].file_deleted <=> req[s].deleted_paths # <<>>
         /\ Len(req[s].deleted_paths) <= req[s].existed
         /\ \A p \in SeqToSet(req[s].deleted_paths) :
              p \notin fs /\ p \in UNION {CandidatePaths(media[h]) : h \in MediaHashes}
         /\ req[s].existed = 0
              => /\ ~req[s].file_deleted
                 /\ req[s].file_deletion_warning = MsgNoFilesFound
         /\ LabelPersisted(req[s])

C5_Witness ==
  \E s \in Slots, t \in Slots :
    /\ SequentialRejects(req[s], req[t])
    /\ req[s].file_deleted /\ Len(req[s].deleted_paths) = 2
    /\ req[t].fs_called /\ req[t].existed = 0 /\ ~req[t].file_deleted
    /\ req[t].file_deletion_warning = MsgNoFilesFound
    /\ fs = {}

\* What a finished reject tells about its torrent step.
C6_TorrentReport ==
  \A s \in Slots :
    (RejectDone(req[s]) /\ req[s].success)
      => /\ req[s].http = 200
         /\ (req[s].lookup_ok /\ req[s].original_link \in {LinkPlain, LinkSlash})
              => /\ req[s].t_called
                 /\ req[s].torrent_hash = "h1"
                 /\ ~req[s].delete_data
                 /\ req[s].t_rpcs <= 1
         /\ req[s].torrent_removed
              <=> (req[s].t_seen /\ req[s].t_rpcs = 1 /\ req[s].t_error = "")
         /\ ~req[s].t_called => (~req[s].torrent_removed /\ req[s].t_rpcs = 0)

\* C6: reject takes the link's trailing segment as the hash and asks the
\* daemon gateway for one removal; torrent_removed=true only if the torrent was
\* found and the removal completed, and then the daemon no longer holds it;
\* unreachable daemon, RPC error and not-found give torrent_removed=false with
\* success=true and nothing raised.
C6_TorrentRemovedOnlyIfFound ==
  /\ []C6_TorrentReport
  /\ [][\A s \in Slots :
          (req[s].kind = "reject" /\ req[s].pc = "t_remove" /\ req'[s].torrent_removed)
            => req[s].torrent_hash \notin torrents']_vars

C6_Witness ==
  \E s \in Slots, t \in Slots :
    /\ RejectDone(req[s]) /\ req[s].original_link = LinkSlash
    /\ req[s].torrent_removed /\ req[s].torrent_hash \notin torrents
    /\ RejectDone(req[t]) /\ req[t].success /\ req[t].t_called
    /\ req[t].t_error = ErrConnection /\ ~req[t].torrent_removed

\* C7: a deletion that was attempted and failed is reported with a warning
\* of its own, different from the not-found and the disabled message.
C7_FailureReportedDistinctly ==
  \A s \in Slots :
    (RejectDone(req[s]) /\ req[s].fs_called /\ req[s].failures >= 1
       /\ req[s].deleted_paths = <<>>)
      => req[s].file_deletion_warning \notin {"", MsgNoFilesFound, MsgDisabled}

SoftDeleteDone(r) == r.kind = "soft_delete" /\ r.pc = "done"

\* What a finished soft delete tells about the row.
C8_SoftDeleteReport ==
  \A s \in Slots :
    SoftDeleteDone(req[s])
      => /\ req[s].success
              => /\ req[s].http = 200
                 /\ req[s].id \in MediaHashes
                 /\ req[s].written_at # NullTs
                 /\ media[req[s].id].deleted_at >= req[s].written_at
                 /\ media[req[s].id].updated_at >= req[s].written_at
         /\ req[s].saw_deleted
              => /\ ~req[s].success
                 /\ req[s].error \in {ErrAlreadyDeleted, ErrDatabase}
         /\ req[s].error = ErrAlreadyDeleted
              => /\ req[s].http = 409
                 /\ media[req[s].id].deleted_at # NullTs
         /\ (req[s].id \in MediaHashes /\ ~req[s].success)
              => req[s].error \in {ErrAlreadyDeleted, ErrDatabase}

\* C8: the soft delete of a row whose deleted_at is null succeeds and sets
\* deleted_at and updated_at; a soft delete invoked on a row already deleted
\* answers AlreadyDeleted / 409 (never 404, never success) and none of its
\* steps changes the row.
C8_SecondSoftDeleteConflicts ==
  /\ []C8_SoftDeleteReport
  /\ [][\A s \in Slots :
          (req[s].kind = "soft_delete" /\ req[s].saw_deleted
             /\ req[s].pc # "done" /\ req'[s] # req[s])
            => media' = media]_vars

C8_Witness ==
  \E s \in Slots, t \in Slots :
    /\ SoftDeleteDone(req[s]) /\ req[s].success
    /\ SoftDeleteDone(req[t]) /\ req[t].saw_deleted
    /\ req[s].call \in req[t].prior
    /\ req[t].http = 409
    /\ media[req[s].id].deleted_at = req[s].written_at

\* C9: of two soft deletes of the same hash, at most one returns success.
C9_SoftDeletedOnce ==
  \A s \in Slots, t \in Slots :
    (s # t /\ SoftDeleteDone(req[s]) /\ SoftDeleteDone(req[t])
       /\ req[s].id = req[t].id)
      => ~(req[s].success /\ req[t].success)

\* Two rejects of the same training row, neither invoked after the other had
\* returned.
ConcurrentRejects(r1, r2) ==
  /\ r1.kind = "reject" /\ r2.kind = "reject"
  /\ r1.pc # "idle" /\ r2.pc # "idle"
  /\ r1.id = r2.id
  /\ r1.id \in TrainIds
  /\ r1.call \notin r2.prior
  /\ r2.call \notin r1.prior

\* C10: two concurrent rejects of the same existing identifier both return
\* success=true with the label would_not_watch persisted, under every
\* interleaving; a request that finds file or torrent gone reports
\* file_deleted=false / torrent_removed=false, and neither fails or raises.
C10_ConcurrentRejects ==
  \A s \in Slots, t \in Slots :
    (s # t /\ ConcurrentRejects(req[s], req[t]))
      => /\ req[s].error \in {"", ErrDatabase}
         /\ req[s].error = "" => req[s].success
         /\ req[s].pc = "done"
              => /\ RejectAnswered(req[s])
                 /\ ~req[s].t_seen => ~req[s].torrent_removed
                 /\ req[s].existed = 0 => ~req[s].file_deleted
         /\ (RejectDone(req[s]) /\ RejectDone(req[t])
               /\ req[s].success /\ req[t].success)
              => training[req[s].id].label = WouldNotWatch

\* One request deleted the file and removed the torrent; the other saw both
\* and lost the race for each.
C10_Witness ==
  \E s \in Slots, t \in Slots :
    /\ s # t
    /\ ConcurrentRejects(req[s], req[t])
    /\ RejectDone(req[s]) /\ RejectDone(req[t])
    /\ req[s].success /\ req[t].success
    /\ req[s].file_deleted /\ req[s].torrent_removed
    /\ req[t].existed >= 1 /\ ~req[t].file_deleted
    /\ req[t].t_seen /\ ~req[t].torrent_removed

\* C11: for reject and soft delete the authoritative write decides the HTTP
\* status: NotFound gives 404, AlreadyDeleted 409, any other failure of the
\* write 500, and a success 200 whatever the teardown steps did.
C11_WriteDecidesStatus ==
  \A s \in Slots :
    (req[s].pc = "done" /\ req[s].kind \in {"reject", "soft_delete"})
      => /\ req[s].error \in {ErrTrainingNotFound, ErrMediaNotFound} => req[s].http = 404
         /\ req[s].error = ErrAlreadyDeleted => req[s].http = 409
         /\ req[s].error = ErrDatabase => req[s].http = 500
         /\ req[s].success => req[s].http = 200

LiveMatches(hash, pipeline_status) ==
  {h \in MediaHashes :
     /\ media[h].deleted_at = NullTs
     /\ hash = "" \/ h = hash
     /\ pipeline_status = NoValue \/ media[h].pipeline_status = pipeline_status}

\* Hashes whose soft delete had returned success before call r was issued.
DeletedBefore(r) ==
  {req[t].id : t \in {u \in Slots : /\ SoftDeleteDone(req[u])
                                     /\ req[u].success
                                     /\ req[u].call \in r.prior}}

\* A read issued after the soft delete of h had succeeded does not return h.
C13_LaterReadsOmit ==
  \A s \in Slots :
    (req[s].kind \in {"list", "get"} /\ req[s].pc # "idle")
      => /\ req[s].data \cap DeletedBefore(req[s]) = {}
         /\ req[s].total <= Cardinality(MediaHashes \ DeletedBefore(req[s]))
         /\ req[s].error = ErrMediaDeleted => media[req[s].id].deleted_at # NullTs

\* C13: a media row whose deleted_at is non-null is neither in the data of a
\* listing nor counted in its total, whatever the filters (the exact hash
\* filter included); so every listing issued after a successful soft delete of
\* h omits h.
C13_ListingOmitsDeleted ==
  /\ []C13_LaterReadsOmit
  /\ [][\A s \in Slots :
          /\ (Issues(s) /\ req'[s].kind = "list" /\ req'[s].pc = "list_select")
               => req'[s].total =
                    Cardinality(LiveMatches(req'[s].id, req'[s].filter_status))
          /\ (req[s].pc = "list_select" /\ req'[s].success)
               => req'[s].data = LiveMatches(req[s].id, req[s].filter_status)
          /\ (Issues(s) /\ req'[s].kind = "get" /\ req'[s].success)
               => req'[s].data = LiveMatches(req'[s].id, NoValue)]_vars

C13_Witness ==
  \E s \in Slots :
    /\ req[s].kind = "list" /\ req[s].pc = "done" /\ req[s].success
    /\ req[s].id \in MediaHashes
    /\ req[s].id \in DeletedBefore(req[s])
    /\ req[s].data = {} /\ req[s].total = 0

\* The call is a write addressed to an identifier that has no row.
OnAbsentRow(r) ==
  \/ r.kind \in {"patch", "reject"} /\ r.id \notin TrainIds /\ r.error # "IMDB ID mismatch"
  \/ r.kind = "pipeline" /\ r.id \notin MediaHashes /\ r.error # ErrHashMismatch
  \/ r.kind = "soft_delete" /\ r.id \notin MediaHashes

NotFoundOf(r) ==
  IF r.kind \in {"patch", "reject"} THEN ErrTrainingNotFound ELSE ErrMediaNotFound

\* What a finished write on an absent row answers.
C14_AbsentRowAnswer ==
  \A s \in Slots :
    (req[s].pc = "done" /\ OnAbsentRow(req[s]))
      => /\ ~req[s].success
         /\ req[s].written_at = NullTs
         /\ req[s].error \in {NotFoundOf(req[s]), ErrDatabase}
         /\ (req[s].error = ErrMediaNotFound) => req[s].http = 404

\* C14: a training patch, a media pipeline patch or a soft delete addressed
\* to a well-formed identifier without a row answers NotFound (the database
\* error only when the store itself raised, which the store's outcomes show
\* not to depend on the row), and no step of such a call writes a table.
C14_AbsentRowIsNotFound ==
  /\ []C14_AbsentRowAnswer
  /\ [](\A id \in ReqIds \ TrainIds, patch \in TrainingPatches :
          UpdateTrainingFields(id, patch.label, patch.human_labeled,
                               patch.anomalous, patch.reviewed)
            = {StoreFailure(ErrDatabase, training),
               StoreFailure(ErrTrainingNotFound, training)})
  /\ [](\A h \in ReqHashes \ MediaHashes, body \in MediaPipelinePatches :
          PipelineCallOfRouter(h, body)
            = {StoreFailure(ErrDatabase, media), StoreFailure(ErrMediaNotFound, media)})
  /\ [][\A s \in Slots :
          (req'[s] # req[s] /\ OnAbsentRow(req'[s]))
            => (training' = training /\ media' = media /\ now' = now)]_vars

C14_Witness ==
  \E s \in Slots, t \in Slots :
    /\ req[s].kind = "patch" /\ req[s].pc = "done" /\ req[s].id \notin TrainIds
    /\ req[s].error = ErrTrainingNotFound
    /\ req[t].kind = "pipeline" /\ req[t].pc = "done" /\ req[t].id \notin MediaHashes
    /\ req[t].error = ErrMediaNotFound /\ req[t].http = 404

\* C15: a training patch or a media pipeline patch that provides no field
\* fails with NoFieldsToUpdate on an existing row and with NotFound on an
\* absent one (existence is checked first), and leaves the tables, updated_at
\* included, unchanged.
C15_NoFieldsToUpdate ==
  [][\A s \in Slots :
       /\ \A id \in ReqIds, patch \in {p \in TrainingPatches : TrainingProvided(p) = {}} :
            (Issues(s) /\ req'[s].kind = "patch" /\ UpdateTraining(s, id, patch))
              => /\ ~req'[s].success
                 /\ req'[s].error \in
                      {IF id \in TrainIds THEN ErrNoFields ELSE ErrTrainingNotFound,
                       ErrDatabase}
                 /\ training' = training
       /\ \A h \in ReqHashes, body \in {b \in MediaPipelinePatches : MediaProvided(b) = {}} :
            (Issues(s) /\ req'[s].kind = "pipeline" /\ UpdateMediaPipeline(s, h, body))
              => /\ ~req'[s].success
                 /\ req'[s].error \in
                      {IF h \in MediaHashes THEN ErrNoFields ELSE ErrMediaNotFound,
                       ErrDatabase}
                 /\ req'[s].error = ErrNoFields => req'[s].http = 400
                 /\ req'[s].error = ErrMediaNotFound => req'[s].http = 404
                 /\ media' = media]_vars

C15_Witness ==
  \E s \in Slots, t \in Slots :
    /\ req[s].kind = "patch" /\ req[s].pc = "done" /\ req[s].id \in TrainIds
    /\ req[s].error = ErrNoFields
    /\ training[req[s].id] = InitTraining
    /\ req[t].kind = "pipeline" /\ req[t].pc = "done" /\ req[t].id \in MediaHashes
    /\ req[t].error = ErrNoFields
    /\ media[req[t].id].updated_at = NullTs

\* The column of atp.media a field of the pipeline patch writes.
ColumnOf(field) ==
  IF field = "clear_error_condition" THEN "error_condition" ELSE field

\* The value a field of the pipeline patch asks for.
AskedValue(body, field) ==
  IF field = "clear_error_condition" THEN NullText
  ELSE IF field = "error_status" THEN TheValue(body.error_status)
  ELSE body[field]

\* C16: a successful field patch changes exactly the provided fields plus
\* updated_at (plus human_labeled and reviewed when label is provided) and
\* nothing else in that row or any other; the updated_fields of a training
\* patch are the fields written with the values written.
C16_PatchWritesProvidedFields ==
  [][\A s \in Slots :
       /\ \A id \in ReqIds, patch \in TrainingPatches :
            (Issues(s) /\ req'[s].success /\ UpdateTraining(s, id, patch))
              => LET written == DOMAIN req'[s].updated_fields
                 IN /\ written = TrainingProvided(patch)
                                   \cup (IF patch.label # NoLabel
                                         THEN {"human_labeled", "reviewed"} ELSE {})
                    /\ \A c \in written : training'[id][c] = req'[s].updated_fields[c]
                    /\ \A c \in {"label", "human_labeled", "anomalous", "reviewed"} \ written :
                         training'[id][c] = training[id][c]
                    /\ training'[id].updated_at = now'
                    /\ \A other \in TrainIds \ {id} : training'[other] = training[other]
                    /\ media' = media
       /\ \A h \in ReqHashes, body \in MediaPipelinePatches :
            (Issues(s) /\ req'[s].success /\ UpdateMediaPipeline(s, h, body))
              => LET written == {ColumnOf(f) : f \in MediaProvided(body)}
                 IN /\ \A f \in MediaProvided(body) :
                         media'[h][ColumnOf(f)] = AskedValue(body, f)
                    /\ \A c \in (DOMAIN media[h]) \ (written \cup {"updated_at"}) :
                         media'[h][c] = media[h][c]
                    /\ media'[h].updated_at = now'
                    /\ \A other \in MediaHashes \ {h} : media'[other] = media[other]
                    /\ training' = training]_vars

\* C17: a pipeline patch carrying clear_error_condition=true on an existing
\* row sets error_condition to null and touches error_status only if that is
\* provided too; carrying nothing else it still succeeds.
C17_ClearErrorCondition ==
  [][\A s \in Slots, h \in MediaHashes, body \in MediaPipelinePatches :
       (body.clear_error_condition /\ Issues(s) /\ req'[s].error # ErrDatabase
          /\ UpdateMediaPipeline(s, h, body))
         => /\ req'[s].success
            /\ media'[h].error_condition = NullText
            /\ body.error_status = {} => media'[h].error_status = media[h].error_status]_vars

\* What a reject answers when file deletion is disabled.
C18_DisabledAnswer ==
  \A s \in Slots :
    (req[s].kind = "reject" /\ ~file_deletion_enabled)
      => /\ req[s].pc \notin {"fs_exists", "fs_delete"}
         /\ req[s].existed = 0 /\ req[s].failures = 0 /\ req[s].deleted_paths = <<>>
         /\ (req[s].pc = "done" /\ req[s].fs_called)
              => /\ req[s].success
                 /\ req[s].http = 200
                 /\ ~req[s].file_deleted
                 /\ req[s].file_deletion_warning = MsgDisabled
                 /\ LabelPersisted(req[s])

\* C18: with file deletion disabled the filesystem gateway answers
\* success=true, deleted=false without checking or deleting a path: no step
\* changes the filesystem, and reject still returns success=true with
\* file_deleted=false and the label committed.
C18_DisabledDeletionTouchesNothing ==
  /\ []C18_DisabledAnswer
  /\ [][~file_deletion_enabled => fs' = fs]_vars
  /\ [](~file_deletion_enabled
          => (DeleteMediaDisabled.success /\ ~DeleteMediaDisabled.deleted))

C18_Witness ==
  \E s \in Slots :
    /\ ~file_deletion_enabled
    /\ RejectDone(req[s]) /\ req[s].fs_called
    /\ req[s].success /\ ~req[s].file_deleted
    /\ req[s].file_deletion_warning = MsgDisabled
    /\ fs = {LibraryCopy}
    /\ training[req[s].id].label = WouldNotWatch

\* The call went through remove_torrent and the gateway has returned.
RemoveReturned(r) ==
  /\ r.kind \in {"reject", "soft_delete"}
  /\ r.t_called
  /\ r.pc \notin {"t_lookup", "t_remove"}

\* What remove_torrent returned.
C19_RemoveResult ==
  \A s \in Slots :
    RemoveReturned(req[s])
      => /\ req[s].t_success <=> req[s].t_error = ""
         /\ req[s].t_rpcs = (IF req[s].t_seen THEN 1 ELSE 0)
         /\ req[s].t_found <=> (req[s].t_seen /\ req[s].t_error = "")
         /\ (req[s].t_connected /\ ~req[s].t_seen)
              => (req[s].t_success /\ ~req[s].t_found)
         /\ ~req[s].t_connected => req[s].t_error = ErrConnection
         /\ req[s].t_found => req[s].t_name = TorrentName(req[s].torrent_hash)
         /\ req[s].t_error # ""
              => /\ ~req[s].t_success /\ ~req[s].t_found
                 /\ req[s].t_error \in {ErrTransmission, ErrConnection}
                 /\ req[s].http # 500

AddDone(r) == r.kind = "add" /\ r.pc = "done"

\* What add_torrent returned.
C20_AddResult ==
  \A s \in Slots :
    AddDone(req[s])
      => /\ req[s].success <=> req[s].t_error = ""
         /\ req[s].already_exists => req[s].success
         /\ req[s].t_seen => (req[s].already_exists /\ req[s].t_rpcs = 0)
         /\ req[s].dup_reported => (req[s].success /\ req[s].already_exists)
         /\ req[s].t_rpcs <= 1
         /\ req[s].torrent_hash = "" => ~req[s].t_seen

Listed(r) == r.pc = "done" /\ r.kind \in ListKinds /\ r.success

\* r2 asks, with the filter and sort of r1, for the page that follows the
\* page of r1, and the relation holds both pages in full.
FollowingPage(r1, r2) ==
  /\ Listed(r1) /\ Listed(r2)
  /\ r1.kind = r2.kind /\ r1.kind # "get_flyway_schema_history"
  /\ r1.sort_by = r2.sort_by /\ r1.sort_order = r2.sort_order
  /\ r1.limit = r2.limit
  /\ r2.offset = r1.offset + r1.limit
  /\ r1.total >= r1.offset + 2 * r1.limit

\* C21: with a fixed filter and sort and no row mutated, the page at
\* offset k, limit n and the page at offset k+n, limit n of every listing hold
\* disjoint sets of rows whenever total >= k+2n, also for predictions whose
\* imdb_id is not unique.
C21_ConsecutivePagesDisjoint ==
  \A s1, s2 \in Slots :
     FollowingPage(req[s1], req[s2]) =>
        SeqToSet(req[s1].page) \cap SeqToSet(req[s2].page) = {}

\* A finished listing call that came through a router and was not ended by a
\* database exception.
Answered(r) ==
  /\ r.pc = "done" /\ r.routed /\ ~r.raised
  /\ r.kind \in ListKinds \ {"get_flyway_schema_history"}

\* C22: a listing request (training, media, prediction, movie view) whose
\* sort_by is outside the allow-list or whose sort_order is outside
\* {asc, desc} is never rejected: it succeeds, sorted by the default field,
\* respectively in desc order.
C22_UnknownSortFallsBack ==
  \A s \in Slots :
     LET r == req[s]
         rel == ListRelation(r.kind)
     IN Answered(r) =>
          /\ r.sort_by \notin ValidSortFields(rel) =>
               r.http = 200 /\ r.order_by[1] = DefaultSortField(rel)
          /\ r.sort_order \notin SortOrders =>
               r.http = 200 /\ r.order_by[2] = "desc"

\* C23: the sort_by and sort_order placed into the query text of any listing
\* operation of the store are members of the allow-list of the entity and
\* of {asc, desc}.
C23_QueryTextFromAllowList ==
  \A s \in Slots :
     LET r == req[s]
     IN (r.kind \in ListKinds /\ r.order_by # <<>>) =>
          /\ r.order_by[1] \in ValidSortFields(ListRelation(r.kind))
          /\ r.order_by[2] \in SortOrders

\* C29: in the training listing next is present iff offset+limit < total and
\* encodes offset+limit, previous is present iff offset > 0 and encodes
\* offset-limit unclamped; in the media, prediction and movie listings
\* has_more is true iff offset+limit < total.
C29_PaginationCursors ==
  \A s \in Slots :
     LET r == req[s]
     IN Listed(r) =>
          /\ r.total = Cardinality(catalog[ListRelation(r.kind)])
          /\ r.kind = "get_training_data" =>
               /\ (r.next # <<>>) <=> (r.offset + r.limit < r.total)
               /\ r.next # <<>> => r.next[2] = r.offset + r.limit /\ r.next[4] = r.limit
               /\ (r.previous # <<>>) <=> (r.offset > 0)
               /\ r.previous # <<>> =>
                    r.previous[2] = r.offset - r.limit /\ r.previous[4] = r.limit
               /\ (0 < r.offset /\ r.offset < r.limit) => r.previous[2] < 0
          /\ r.kind \in {"get_media_data", "get_prediction_data", "get_movie_data"} =>
               /\ r.has_more <=> (r.offset + r.limit < r.total)
               /\ r.next = <<>> /\ r.previous = <<>>

\* A training page with a negative previous offset and no next page, beside a
\* page of another listing that has more rows after it.
C29_Witness ==
  \E s1, s2 \in Slots :
     /\ Listed(req[s1]) /\ req[s1].kind = "get_training_data"
     /\ req[s1].previous # <<>> /\ req[s1].previous[2] < 0 /\ req[s1].next = <<>>
     /\ Listed(req[s2]) /\ req[s2].kind = "get_prediction_data"
     /\ req[s2].has_more /\ req[s2].offset > 0

\* The positions of a reject after its write: the teardown.
TeardownPcs == {"lookup", "fs_exists", "fs_delete", "t_lookup", "t_remove"}

\* The order of the steps of reject r so far.
C24_WriteFirst(r) ==
  /\ (r.lookup_called \/ r.fs_called \/ r.t_called \/ r.pc \in TeardownPcs) =>
        r.written_at # NullTs /\ LabelPersisted(r)
  /\ r.pc = "lookup" => ~r.lookup_called /\ ~r.fs_called /\ ~r.t_called
  /\ r.pc \in {"fs_exists", "fs_delete"} => r.lookup_called /\ r.fs_called /\ ~r.t_called
  /\ (r.fs_called \/ r.t_called) => r.lookup_called

\* C24: in reject the label write is committed before any teardown step
\* starts (path lookup, then file deletion, then torrent removal), and no
\* outcome of a later step rolls back or alters the committed label,
\* human_labeled and reviewed.
C24_TeardownKeepsLabel ==
  /\ [](\A s \in Slots : req[s].kind = "reject" => C24_WriteFirst(req[s]))
  /\ [][\A s \in Slots :
          (req[s].kind = "reject" /\ req[s].pc \in TeardownPcs /\ req'[s] # req[s])
            => training' = training]_vars

\* A reject whose file deletion failed and whose daemon was unreachable, the
\* label still as it wrote it.
C24_Witness ==
  \E s \in Slots :
    /\ RejectDone(req[s])
    /\ req[s].failures >= 1
    /\ req[s].t_error # ""
    /\ training[req[s].id].label_at = req[s].written_at
    /\ training[req[s].id].label = WouldNotWatch
    /\ training[req[s].id].human_labeled /\ training[req[s].id].reviewed

\* A Record Store operation that has returned or raised.
StoreExited(r) == r.kind = "store" /\ r.pc = "done"

\* C25: every Record Store operation opens its own connection and closes it
\* on every exit path (success, not found, conflict, exception), also when
\* the failure happens during connection setup, at the search path statement
\* of get_connection.
C25_ConnectionClosedOnExit ==
  /\ \A s \in Slots : StoreExited(req[s]) => ~req[s].opened
  /\ (\A s \in Slots : req[s].pc \in {"idle", "done"}) => connections = 0

PatchOnDeletedRow(h, body, clear_error_condition) ==
  \A o \in UpdateMediaPipelineCall(h, body.pipeline_status, body.error_status,
                                   body.rejection_status, clear_error_condition) :
    o.error # ErrDatabase =>
      IF MediaUpdateFields(body.pipeline_status, body.error_status,
                           body.rejection_status, clear_error_condition) = {}
      THEN ~o.success /\ o.error = ErrNoFields /\ o.table = media
      ELSE /\ o.success
           /\ o.table[h].deleted_at = media[h].deleted_at
           /\ o.table[h].updated_at = now + 1
           /\ body.pipeline_status # NoValue =>
                o.table[h].pipeline_status = body.pipeline_status
           /\ body.error_status # {} =>
                o.table[h].error_status = TheValue(body.error_status)
           /\ body.rejection_status # NoValue =>
                o.table[h].rejection_status = body.rejection_status
           /\ clear_error_condition => o.table[h].error_condition = NullText

\* C27: once a media row's deleted_at is non-null no operation sets it back
\* to null; update_media_pipeline checks only that the row exists, so a
\* pipeline patch on a soft-deleted row still succeeds and changes the given
\* fields while leaving deleted_at unchanged.
C27_DeletedAtNeverCleared ==
  /\ [][\A h \in MediaHashes :
          media[h].deleted_at # NullTs => media'[h].deleted_at # NullTs]_vars
  /\ [](\A h \in MediaHashes :
          media[h].deleted_at # NullTs =>
            \A body \in MediaPipelinePatches, cec \in BOOLEAN :
              PatchOnDeletedRow(h, body, cec))
  /\ [][\A s \in Slots, h \in MediaHashes, body \in MediaPipelinePatches :
          (media[h].deleted_at # NullTs /\ Issues(s) /\ req'[s].error # ErrDatabase
             /\ UpdateMediaPipeline(s, h, body))
            => /\ media'[h].deleted_at = media[h].deleted_at
               /\ MediaUpdateFields(body.pipeline_status, body.error_status,
                                    body.rejection_status, FALSE) # {}
                    => /\ req'[s].success /\ req'[s].http = 200
                       /\ media'[h].updated_at = now']_vars

\* A pipeline patch that succeeded on a row soft-deleted before it.
C27_Witness ==
  \E s \in Slots :
    /\ req[s].kind = "pipeline" /\ req[s].pc = "done" /\ req[s].success
    /\ req[s].id \in MediaHashes
    /\ media[req[s].id].deleted_at # NullTs
    /\ media[req[s].id].deleted_at < req[s].written_at
    /\ media[req[s].id].updated_at = req[s].written_at
    /\ media[req[s].id].pipeline_status = Complete

\* The candidates of delete_media for a media row: cache/incomplete,
\* cache/complete, the library of the row's media type, and the stored
\* parent_path/target_path.
CandidatesOf(row) ==
  {<<"", "cache", "incomplete">> \o row.target_path,
   <<"", "cache", "complete">> \o row.target_path,
   (IF \E i \in 1..Len(row.parent_path) : row.parent_path[i] = "movies"
    THEN <<"", "lib", "movies">> ELSE <<"", "lib", "tv">>) \o row.target_path,
   row.parent_path \o row.target_path}

NoRepeats(seq) == Cardinality(SeqToSet(seq)) = Len(seq)

\* delete_media of reject r has returned.
DeleteMediaReturned(r) ==
  /\ r.kind = "reject"
  /\ r.fs_called
  /\ r.pc \notin {"lookup", "fs_exists", "fs_delete"}

\* C30: delete_media tries each candidate path exactly once, deletes every
\* candidate that exists rather than stopping at the first, and returns
\* deleted=true iff at least one candidate was deleted, the paths it lists
\* being exactly the deleted candidates.
C30_DeleteMediaTriesAll ==
  /\ [](\A s \in Slots :
          (DeleteMediaReturned(req[s]) /\ file_deletion_enabled) =>
            LET r == req[s]
            IN /\ NoRepeats(r.tried)
               /\ \E h \in MediaHashes : SeqToSet(r.tried) = CandidatesOf(media[h])
               /\ NoRepeats(r.deleted_paths)
               /\ SeqToSet(r.deleted_paths) \subseteq SeqToSet(r.tried)
               /\ Len(r.deleted_paths) = r.existed - r.failures
               /\ r.file_deleted <=> r.deleted_paths # <<>>)
  /\ [][\A s \in Slots :
          LET r == req[s]
          IN /\ (r.pc = "fs_exists" /\ req'[s] # r) =>
                  /\ req'[s].deleted_paths = r.deleted_paths
                  /\ r.paths_to_try[r.idx] \in fs => req'[s].pc = "fs_delete"
             /\ (r.pc = "fs_delete" /\ req'[s] # r) =>
                  /\ req'[s].failures = r.failures =>
                       /\ r.paths_to_try[r.idx] \in fs
                       /\ r.paths_to_try[r.idx] \notin fs'
                       /\ req'[s].deleted_paths =
                            Append(r.deleted_paths, r.paths_to_try[r.idx])
                  /\ req'[s].failures # r.failures =>
                       fs' = fs /\ req'[s].deleted_paths = r.deleted_paths
                  /\ r.idx < Len(r.paths_to_try) =>
                       req'[s].pc = "fs_exists" /\ req'[s].idx = r.idx + 1]_vars

\* A reject whose delete_media tried four candidates and deleted the two
\* that existed.
C30_Witness ==
  \E s \in Slots :
    /\ DeleteMediaReturned(req[s])
    /\ Len(req[s].tried) = 4
    /\ Len(req[s].deleted_paths) = 2
    /\ req[s].existed = 2
    /\ req[s].file_deleted
    /\ fs = {}

====
